---- MODULE Spec2Model ----
(***************************************************************************)
(* Locator generation and validation engine of anilchander1/newmcp.         *)
(*                                                                         *)
(* A snapshot is an arena of element nodes: nodes[i] is one ElementData     *)
(* record, its parent an index into the arena (0: no parent) and its        *)
(* children a sequence of indices; roots is snapshot.elements.  Strings     *)
(* are TLA+ strings, so every regular expression and every string           *)
(* operation of the source is computed character by character.              *)
(* Each exported function is one action: it reads the inputs chosen by      *)
(* Init and leaves the name of the call in op and its return value in       *)
(* result.                                                                  *)
(***************************************************************************)
EXTENDS Integers, Sequences, FiniteSets, TLC

VARIABLES
    nodes,      \* the arena of ElementData records
    roots,      \* snapshot.elements: indices of the top-level nodes
    element,    \* index of the element the call is about (targetElement)
    options,    \* LocatorGenerationOptions & ValidationWorkflowOptions
    selectors,  \* generatedLocators.selectors handed to validateLocators
    str,        \* the string handed to a string helper called by itself
    elements,   \* the elements handed to batchValidateLocators (indices)
    previous,   \* what the caller kept of its last generateLocators call, if any
    frame,      \* locals of the page-object call in progress, <<>> when none
    log,        \* the waits asked of the WebDriver so far, with their outcomes
    driver,     \* the driver module's variable: a browser, 0 for null
    browsers,   \* the browsers built and not yet quit
    tasks,      \* the driver-module calls in progress, by caller
    op,         \* name of the exported function that ran ("idle": none yet)
    result      \* its return value

\* the browser side of the program
browserSide == <<frame, log, driver, browsers, tasks>>

vars == <<nodes, roots, element, options, selectors, str, elements, previous,
          frame, log, driver, browsers, tasks, op, result>>

\* what a call works on and what the caller holds besides; no call writes to them
inputs == <<nodes, roots, element, options, selectors, str, elements, previous,
            frame, log, driver, browsers, tasks>>

\* no page object and no driver in use
NoBrowserSide ==
    /\ frame = <<>>
    /\ log = <<>>
    /\ driver = 0
    /\ browsers = {}
    /\ tasks = <<>>

-----------------------------------------------------------------------------
(* JavaScript values *)

\* undefined (an absent property); null is kept apart from it
Undefined == "<undefined>"
Null == "<null>"

\* JS truthiness of a string-or-undefined value
Truthy(v) == v # Undefined /\ v # Null /\ v # ""

\* a || b
Or(a, b) == IF Truthy(a) THEN a ELSE b

-----------------------------------------------------------------------------
(* Strings *)

\* the character at position i (1-based), "" outside the string
CharAt(s, i) == IF i >= 1 /\ i <= Len(s) THEN SubSeq(s, i, i) ELSE ""

\* s.substring(a - 1, b): the characters at positions a..b that exist
Sub(s, a, b) ==
    LET lo == IF a < 1 THEN 1 ELSE a
        hi == IF b > Len(s) THEN Len(s) ELSE b
    IN  IF lo > hi THEN "" ELSE SubSeq(s, lo, hi)

\* s.startsWith(p), /^p/.test(s) for a literal p
StartsWith(s, p) == Len(s) >= Len(p) /\ SubSeq(s, 1, Len(p)) = p

\* s.includes(p), /p/.test(s) for a literal p
Includes(s, p) ==
    \E i \in 1..(Len(s) - Len(p) + 1) : Sub(s, i, i + Len(p) - 1) = p

\* s.indexOf(p, from) as a 1-based position, 0 when p does not occur
IndexFrom(s, p, from) ==
    LET hits == {i \in from..(Len(s) - Len(p) + 1) : Sub(s, i, i + Len(p) - 1) = p}
    IN  IF hits = {} THEN 0 ELSE CHOOSE i \in hits : \A j \in hits : i <= j

IndexOf(s, p) == IndexFrom(s, p, 1)

Digit == {"0", "1", "2", "3", "4", "5", "6", "7", "8", "9"}
LowerCase ==
    {"a", "b", "c", "d", "e", "f", "g", "h", "i", "j", "k", "l", "m",
     "n", "o", "p", "q", "r", "s", "t", "u", "v", "w", "x", "y", "z"}
UpperCase ==
    {"A", "B", "C", "D", "E", "F", "G", "H", "I", "J", "K", "L", "M",
     "N", "O", "P", "Q", "R", "S", "T", "U", "V", "W", "X", "Y", "Z"}
Letter == LowerCase \cup UpperCase
\* \w
WordChar == Letter \cup Digit \cup {"_"}
\* \s
WhiteSpace == {" ", "\t", "\n", "\r"}
\* [a-f0-9] under the i flag
HexDigit == Digit \cup {"a", "b", "c", "d", "e", "f", "A", "B", "C", "D", "E", "F"}

\* every character of s[from..to] lies in the class cs
AllIn(s, from, to, cs) == \A i \in from..to : CharAt(s, i) \in cs

\* length of the longest run of characters of cs that starts at position i
RECURSIVE RunLen(_, _, _)
RunLen(s, i, cs) ==
    IF i > Len(s) \/ CharAt(s, i) \notin cs THEN 0 ELSE 1 + RunLen(s, i + 1, cs)

\* length of the longest run of characters outside cs that starts at position i
RECURSIVE RunLenNot(_, _, _)
RunLenNot(s, i, cs) ==
    IF i < 1 \/ i > Len(s) \/ CharAt(s, i) \in cs THEN 0 ELSE 1 + RunLenNot(s, i + 1, cs)

\* s.toLowerCase() on the letters the i-flag patterns of the source contain
LowerOf(c) ==
    CASE c = "A" -> "a" [] c = "B" -> "b" [] c = "C" -> "c" [] c = "D" -> "d"
      [] c = "E" -> "e" [] c = "F" -> "f" [] c = "G" -> "g" [] c = "H" -> "h"
      [] c = "I" -> "i" [] c = "J" -> "j" [] c = "K" -> "k" [] c = "L" -> "l"
      [] c = "M" -> "m" [] c = "N" -> "n" [] c = "O" -> "o" [] c = "P" -> "p"
      [] c = "Q" -> "q" [] c = "R" -> "r" [] c = "S" -> "s" [] c = "T" -> "t"
      [] c = "U" -> "u" [] c = "V" -> "v" [] c = "W" -> "w" [] c = "X" -> "x"
      [] c = "Y" -> "y" [] c = "Z" -> "z" [] OTHER -> c

RECURSIVE ToLower(_)
ToLower(s) == IF s = "" THEN "" ELSE LowerOf(CharAt(s, 1)) \o ToLower(Tail(s))

\* s.trim()
RECURSIVE TrimStart(_)
TrimStart(s) ==
    IF s # "" /\ CharAt(s, 1) \in WhiteSpace THEN TrimStart(Tail(s)) ELSE s

RECURSIVE TrimEnd(_)
TrimEnd(s) ==
    IF s # "" /\ CharAt(s, Len(s)) \in WhiteSpace
    THEN TrimEnd(Sub(s, 1, Len(s) - 1))
    ELSE s

Trim(s) == TrimEnd(TrimStart(s))

\* s.replace(/\s+/g, ' ')
RECURSIVE CollapseWs(_)
CollapseWs(s) ==
    IF s = "" THEN ""
    ELSE IF CharAt(s, 1) \in WhiteSpace
         THEN " " \o CollapseWs(Sub(s, 1 + RunLen(s, 1, WhiteSpace), Len(s)))
         ELSE CharAt(s, 1) \o CollapseWs(Tail(s))

\* s.split(/\s+/)
RECURSIVE SplitWs(_)
SplitWs(s) ==
    LET ws == {i \in 1..Len(s) : CharAt(s, i) \in WhiteSpace}
    IN  IF ws = {} THEN <<s>>
        ELSE LET i == CHOOSE k \in ws : \A j \in ws : k <= j
             IN  <<Sub(s, 1, i - 1)>>
                 \o SplitWs(Sub(s, i + RunLen(s, i, WhiteSpace), Len(s)))

\* s.split(c) for a one-character separator c
RECURSIVE SplitChar(_, _)
SplitChar(s, c) ==
    LET i == IndexOf(s, c)
    IN  IF i = 0 THEN <<s>>
        ELSE <<Sub(s, 1, i - 1)>> \o SplitChar(Sub(s, i + 1, Len(s)), c)

\* s with every character of the class cs removed: s.replace(/[cs]/g, '')
RECURSIVE RemoveAll(_, _)
RemoveAll(s, cs) ==
    IF s = "" THEN ""
    ELSE (IF CharAt(s, 1) \in cs THEN "" ELSE CharAt(s, 1)) \o RemoveAll(Tail(s), cs)

\* parts.join(sep)
RECURSIVE Join(_, _)
Join(parts, sep) ==
    IF parts = <<>> THEN ""
    ELSE IF Len(parts) = 1 THEN parts[1]
    ELSE parts[1] \o sep \o Join(Tail(parts), sep)

\* xs.filter(P) and xs.some(P)
Filter(xs, P(_)) == SelectSeq(xs, P)

Some(xs, P(_)) == \E i \in DOMAIN xs : P(xs[i])

-----------------------------------------------------------------------------
(* ElementData *)

\* attributes is the sequence of <<key, value>> pairs of the object, in
\* insertion order (the order Object.entries yields)
Keys(attrs) == [i \in DOMAIN attrs |-> attrs[i][1]]
Values(attrs) == [i \in DOMAIN attrs |-> attrs[i][2]]

\* attrs.hasOwnProperty(k)
HasKey(attrs, k) == \E i \in DOMAIN attrs : attrs[i][1] = k

\* attrs[k]
Get(attrs, k) ==
    IF HasKey(attrs, k)
    THEN attrs[CHOOSE i \in DOMAIN attrs : attrs[i][1] = k][2]
    ELSE Undefined

\* the parent chain walked by "while (current && depth < max)": the
\* ancestors of e, nearest first, at most max of them
RECURSIVE ParentChain(_, _, _)
ParentChain(ns, e, max) ==
    IF max = 0 \/ ns[e].parent = 0 THEN <<>>
    ELSE <<ns[e].parent>> \o ParentChain(ns, ns[e].parent, max - 1)

-----------------------------------------------------------------------------
(* component-detector *)

\* levels of the parent chain the three framework tests walk
FrameworkParentLevels == 5

hasSpectraIndicators(el) ==
    \/ Truthy(el.id) /\ StartsWith(el.id, "sp-")
    \/ /\ Truthy(el.class)
       /\ LET classes == SplitWs(el.class)
          IN  \/ Some(classes, LAMBDA cls : StartsWith(cls, "sp-"))
              \/ Some(classes, LAMBDA cls : StartsWith(cls, "oj-spectra-"))
              \/ Some(classes, LAMBDA cls : StartsWith(cls, "spectra-"))
    \/ Some(Keys(el.attributes), LAMBDA key : StartsWith(key, "sp-"))
    \/ Some(Keys(el.attributes), LAMBDA key : StartsWith(key, "data-spectra-"))
    \/ Some(Values(el.attributes), LAMBDA value : StartsWith(value, "sp-"))
    \/ Truthy(el.tag) /\ StartsWith(el.tag, "sp-")

hasJETIndicators(el) ==
    \/ /\ Truthy(el.class)
       /\ Some(SplitWs(el.class),
               LAMBDA cls : /\ StartsWith(cls, "oj-")
                            /\ ~StartsWith(cls, "oj-spectra-")
                            /\ ~StartsWith(cls, "oj-redwood-"))
    \/ Some(Keys(el.attributes), LAMBDA key : StartsWith(key, "data-oj-"))
    \/ /\ Truthy(el.tag)
       /\ StartsWith(el.tag, "oj-")
       /\ ~StartsWith(el.tag, "oj-spectra-")
       /\ ~StartsWith(el.tag, "oj-redwood-")

hasRedwoodIndicators(el) ==
    \/ /\ Truthy(el.class)
       /\ LET classes == SplitWs(el.class)
          IN  \/ Some(classes, LAMBDA cls : StartsWith(cls, "oj-redwood-"))
              \/ Some(classes, LAMBDA cls : StartsWith(cls, "redwood-"))
    \/ Some(Keys(el.attributes), LAMBDA key : StartsWith(key, "redwood-"))
    \/ Some(Values(el.attributes), LAMBDA value : Includes(value, "redwood"))

isSpectraComponent(ns, e) ==
    \/ hasSpectraIndicators(ns[e])
    \/ Some(ParentChain(ns, e, FrameworkParentLevels), LAMBDA a : hasSpectraIndicators(ns[a]))

isJETComponent(ns, e) ==
    \/ hasJETIndicators(ns[e])
    \/ Some(ParentChain(ns, e, FrameworkParentLevels), LAMBDA a : hasJETIndicators(ns[a]))

\* variant walking one ancestor more than the source does
isRedwoodComponentSixLevels(ns, e) ==
    \/ hasRedwoodIndicators(ns[e])
    \/ Some(ParentChain(ns, e, FrameworkParentLevels + 1),
            LAMBDA a : hasRedwoodIndicators(ns[a]))

isRedwoodComponent(ns, e) ==
    \/ hasRedwoodIndicators(ns[e])
    \/ Some(ParentChain(ns, e, FrameworkParentLevels),
            LAMBDA a : hasRedwoodIndicators(ns[a]))

\* variant testing JET before Spectra
detectComponentFrameworkJetFirst(ns, e) ==
    IF isJETComponent(ns, e) THEN "jet"
    ELSE IF isSpectraComponent(ns, e) THEN "spectra"
    ELSE IF isRedwoodComponent(ns, e) THEN "redwood"
    ELSE "html"

detectComponentFramework(ns, e) ==
    IF isSpectraComponent(ns, e) THEN "spectra"
    ELSE IF isJETComponent(ns, e) THEN "jet"
    ELSE IF isRedwoodComponent(ns, e) THEN "redwood"
    ELSE "html"

-----------------------------------------------------------------------------
(* text-extractor *)

\* levels of the parent chain the label search and the placeholder search walk
LabelParentLevels == 5
PlaceholderParentLevels == 3

\* the nodes below the elements els, in document order (depth first, a node
\* before its children)
RECURSIVE DocOrder(_, _)
DocOrder(ns, els) ==
    IF els = <<>> THEN <<>>
    ELSE <<els[1]>> \o DocOrder(ns, ns[els[1]].children) \o DocOrder(ns, Tail(els))

RECURSIVE extractDeepText(_, _)
RECURSIVE childTexts(_, _)

\* the loop over element.children of extractDeepText: the non-empty deep
\* texts of the children
childTexts(ns, els) ==
    IF els = <<>> THEN <<>>
    ELSE LET childText == extractDeepText(ns, els[1])
         IN  (IF childText # "" THEN <<childText>> ELSE <<>>)
             \o childTexts(ns, Tail(els))

\* variant that joins the parts without collapsing the runs of blanks
extractDeepTextUncollapsed(ns, e) ==
    LET own == IF Truthy(ns[e].text) /\ Trim(ns[e].text) # ""
               THEN <<Trim(ns[e].text)>> ELSE <<>>
        textParts == own \o childTexts(ns, ns[e].children)
    IN  Trim(Join(textParts, " "))

extractDeepText(ns, e) ==
    LET own == IF Truthy(ns[e].text) /\ Trim(ns[e].text) # ""
               THEN <<Trim(ns[e].text)>> ELSE <<>>
        textParts == own \o childTexts(ns, ns[e].children)
    IN  Trim(CollapseWs(Join(textParts, " ")))

\* first node in document order that satisfies P, 0 when there is none
FirstInDocOrder(ns, rts, P(_)) ==
    LET found == SelectSeq(DocOrder(ns, rts), P)
    IN  IF found = <<>> THEN 0 ELSE found[1]

findElementById(id, ns, rts) ==
    FirstInDocOrder(ns, rts, LAMBDA i : ns[i].id = id)

\* el.attributes?.for || el.attributes?.htmlFor
labelFor(el) == Or(Get(el.attributes, "for"), Get(el.attributes, "htmlFor"))

findLabelForElement(elementId, ns, rts) ==
    FirstInDocOrder(ns, rts,
                    LAMBDA i : ns[i].tag = "label" /\ labelFor(ns[i]) = elementId)

\* the test of the sibling loop: labelFor === element.id
siblingLabelMatches(sibling, el) == labelFor(sibling) = el.id

\* the loop over current.children of extractLabelText: the text of the
\* first label child that matches and has text, Null when there is none
siblingLabelText(ns, e, current) ==
    LET hits == SelectSeq(ns[current].children,
                          LAMBDA c : /\ ns[c].tag = "label"
                                     /\ siblingLabelMatches(ns[c], ns[e])
                                     /\ extractDeepText(ns, c) # "")
    IN  IF hits = <<>> THEN Null ELSE extractDeepText(ns, hits[1])

\* the while loop of extractLabelText over the ancestors chain, nearest first
RECURSIVE labelFromParents(_, _, _)
labelFromParents(ns, e, chain) ==
    IF chain = <<>> THEN Null
    ELSE LET current == chain[1]
         IN  IF ns[current].tag = "label" /\ extractDeepText(ns, current) # ""
             THEN extractDeepText(ns, current)
             ELSE IF siblingLabelText(ns, e, current) # Null
                  THEN siblingLabelText(ns, e, current)
                  ELSE labelFromParents(ns, e, Tail(chain))

extractLabelText(ns, rts, e) ==
    LET attrs == ns[e].attributes
        label == Or(Get(attrs, "ariaLabel"), Get(attrs, "aria-label"))
        labelledBy == Or(Get(attrs, "ariaLabelledby"), Get(attrs, "aria-labelledby"))
        byRef == IF Truthy(labelledBy) THEN findElementById(labelledBy, ns, rts) ELSE 0
        byFor == IF Truthy(ns[e].id) THEN findLabelForElement(ns[e].id, ns, rts) ELSE 0
    IN  IF Truthy(label) /\ Trim(label) # "" THEN Trim(label)
        ELSE IF byRef # 0 /\ extractDeepText(ns, byRef) # ""
             THEN extractDeepText(ns, byRef)
        ELSE IF byFor # 0 /\ extractDeepText(ns, byFor) # ""
             THEN extractDeepText(ns, byFor)
        ELSE labelFromParents(ns, e, ParentChain(ns, e, LabelParentLevels))

\* the while loop of extractPlaceholderText over the ancestors chain
RECURSIVE placeholderFromParents(_, _)
placeholderFromParents(ns, chain) ==
    IF chain = <<>> THEN Null
    ELSE LET placeholder == Get(ns[chain[1]].attributes, "placeholder")
         IN  IF Truthy(placeholder) /\ Trim(placeholder) # ""
             THEN Trim(placeholder)
             ELSE placeholderFromParents(ns, Tail(chain))

\* variant walking one ancestor more than the source does
extractPlaceholderTextFourLevels(ns, rts, e) ==
    LET attrs == ns[e].attributes
        own == Get(attrs, "placeholder")
        aria == Or(Get(attrs, "ariaPlaceholder"), Get(attrs, "aria-placeholder"))
    IN  IF Truthy(own) /\ Trim(own) # "" THEN Trim(own)
        ELSE IF Truthy(aria) /\ Trim(aria) # "" THEN Trim(aria)
        ELSE placeholderFromParents(ns, ParentChain(ns, e, PlaceholderParentLevels + 1))

extractPlaceholderText(ns, rts, e) ==
    LET attrs == ns[e].attributes
        own == Get(attrs, "placeholder")
        aria == Or(Get(attrs, "ariaPlaceholder"), Get(attrs, "aria-placeholder"))
    IN  IF Truthy(own) /\ Trim(own) # "" THEN Trim(own)
        ELSE IF Truthy(aria) /\ Trim(aria) # "" THEN Trim(aria)
        ELSE placeholderFromParents(ns, ParentChain(ns, e, PlaceholderParentLevels))

\* collectText of aggregateSpanText: the parts pushed for el and below
RECURSIVE collectText(_, _)
RECURSIVE collectTextAll(_, _)

collectTextAll(ns, els) ==
    IF els = <<>> THEN <<>>
    ELSE collectText(ns, els[1]) \o collectTextAll(ns, Tail(els))

collectText(ns, e) ==
    LET el == ns[e]
        direct == IF Truthy(el.text) /\ Trim(el.text) # "" /\ el.tag # "span"
                  THEN <<Trim(el.text)>> ELSE <<>>
        span == IF el.tag = "span" /\ extractDeepText(ns, e) # ""
                THEN <<extractDeepText(ns, e)>> ELSE <<>>
    IN  direct \o span \o collectTextAll(ns, el.children)

aggregateSpanText(ns, rts, e) ==
    Trim(CollapseWs(Join(collectText(ns, e), " ")))

-----------------------------------------------------------------------------
(* locator-generator *)

\* an option of the options object, d when the caller left it out
Opt(o, k, d) == IF k \in DOMAIN o THEN o[k] ELSE d

\* most selectors generateLocators returns
MaxSelectors == 5
\* thresholds of the stability tests and of the text tier
HexRunLength == 32
HashedClassLength == 10
ShortClassLength == 20
TextLimit == 100
PartialOver == 10
PartialLength == 20

\* value.replace(/"/g, '\\"').replace(/'/g, "\\'")
RECURSIVE escapeSelector(_)
escapeSelector(value) ==
    IF value = "" THEN ""
    ELSE (IF CharAt(value, 1) \in {"\"", "'"} THEN "\\" ELSE "")
         \o CharAt(value, 1) \o escapeSelector(Tail(value))

\* the parts of the concat() form: "p0", '"', "p1", '"', "p2" ...
concatParts(parts) ==
    [i \in DOMAIN parts |->
        IF i = 1 THEN "\"" \o parts[i] \o "\""
        ELSE "'\"', \"" \o parts[i] \o "\""]

\* variant without the concat() branch
escapeXPathStringTwoWay(value) ==
    IF Includes(value, "\"")
    THEN "'" \o value \o "'"
    ELSE "\"" \o value \o "\""

escapeXPathString(value) ==
    IF Includes(value, "\"") /\ Includes(value, "'")
    THEN "concat(" \o Join(concatParts(SplitChar(value, "\"")), ", ") \o ")"
    ELSE IF Includes(value, "\"")
         THEN "'" \o value \o "'"
         ELSE "\"" \o value \o "\""

\* variant whose word test lacks the i flag
isStableIdCaseSensitive(id) ==
    IF id # "" /\ AllIn(id, 1, Len(id), Digit) THEN FALSE
    ELSE IF \E i \in 1..Len(id) : RunLen(id, i, HexDigit) >= HexRunLength THEN FALSE
    ELSE IF \/ Includes(id, "timestamp")
            \/ Includes(id, "random")
            \/ Includes(id, "temp")
            \/ Includes(id, "gen") THEN FALSE
    ELSE IF LET n == RunLen(id, 1, Letter)
            IN  /\ n >= 1
                /\ n + 2 <= Len(id)
                /\ CharAt(id, n + 1) = "-"
                /\ AllIn(id, n + 2, Len(id), Digit) THEN FALSE
    ELSE TRUE

isStableId(id) ==
    IF id # "" /\ AllIn(id, 1, Len(id), Digit) THEN FALSE
    ELSE IF \E i \in 1..Len(id) : RunLen(id, i, HexDigit) >= HexRunLength THEN FALSE
    ELSE IF \/ Includes(ToLower(id), "timestamp")
            \/ Includes(ToLower(id), "random")
            \/ Includes(ToLower(id), "temp")
            \/ Includes(ToLower(id), "gen") THEN FALSE
    ELSE IF LET n == RunLen(id, 1, Letter)
            IN  /\ n >= 1
                /\ n + 2 <= Len(id)
                /\ CharAt(id, n + 1) = "-"
                /\ AllIn(id, n + 2, Len(id), Digit) THEN FALSE
    ELSE TRUE

\* /^(btn|input|form|oxd|ant|mui|sp|oj|spectra|redwood)-/
SemanticPrefixes ==
    {"btn-", "input-", "form-", "oxd-", "ant-", "mui-", "sp-", "oj-",
     "spectra-", "redwood-"}

isStableClass(className) ==
    IF /\ Len(className) >= HashedClassLength
       /\ AllIn(className, 1, Len(className), Letter \cup Digit)
       /\ ~(LET n == RunLen(className, 1, Letter)
            IN  /\ n >= 1
                /\ CharAt(className, n + 1) = "-"
                /\ RunLen(className, n + 2, Letter) >= 1)
    THEN FALSE
    ELSE IF \E p \in SemanticPrefixes : StartsWith(className, p) THEN TRUE
    ELSE IF \E p \in {"sp-", "oj-", "spectra-", "redwood-"} : StartsWith(className, p)
         THEN TRUE
    ELSE IF /\ Len(className) < ShortClassLength
            /\ className # ""
            /\ CharAt(className, 1) \in Letter
            /\ AllIn(className, 2, Len(className), Letter \cup Digit \cup {"-"})
         THEN TRUE
    ELSE FALSE

\* `[key="value"]`
attrSelector(key, value) == "[" \o key \o "=\"" \o escapeSelector(value) \o "\"]"

\* `//tag[@key="value"]` as the template strings of the source build it
attrXPath(tag, key, value) ==
    "//" \o tag \o "[@" \o key \o "=\"" \o escapeXPathString(value) \o "\"]"

addTestIdSelectors(el) ==
    LET attrs == el.attributes
        testid == Or(Get(attrs, "dataTestid"), Get(attrs, "data-testid"))
        cy == Or(Get(attrs, "dataCy"), Get(attrs, "data-cy"))
        test == Or(Get(attrs, "dataTest"), Get(attrs, "data-test"))
    IN  (IF Truthy(testid) THEN <<attrSelector("data-testid", testid)>> ELSE <<>>)
        \o (IF Truthy(cy) THEN <<attrSelector("data-cy", cy)>> ELSE <<>>)
        \o (IF Truthy(test) THEN <<attrSelector("data-test", test)>> ELSE <<>>)

\* the selectors one pass over Object.entries(attrs) pushes for the keys
\* that start with one of the prefixes
RECURSIVE prefixedAttrSelectors(_, _)
prefixedAttrSelectors(attrs, prefixes) ==
    IF attrs = <<>> THEN <<>>
    ELSE LET key == attrs[1][1]
             value == attrs[1][2]
         IN  (IF (\E p \in prefixes : StartsWith(key, p)) /\ Truthy(value)
              THEN <<attrSelector(key, value)>> ELSE <<>>)
             \o prefixedAttrSelectors(Tail(attrs), prefixes)

addComponentSpecificSelectors(el, framework) ==
    IF framework = "spectra"
    THEN prefixedAttrSelectors(el.attributes, {"sp-", "data-spectra-"})
    ELSE IF framework = "jet"
         THEN prefixedAttrSelectors(el.attributes, {"data-oj-"})
         ELSE <<>>

addStableIdSelectors(el) ==
    IF ~Truthy(el.id) THEN <<>>
    ELSE IF isStableId(el.id) THEN <<"#" \o escapeSelector(el.id)>> ELSE <<>>

addNameSelectors(el) ==
    LET name == Get(el.attributes, "name")
    IN  IF Truthy(name)
        THEN <<attrSelector("name", name)>>
             \o (IF Truthy(el.tag) THEN <<el.tag \o attrSelector("name", name)>> ELSE <<>>)
        ELSE <<>>

\* element.class.split(/\s+/).filter(cls => cls.trim())
classTokens(class) == Filter(SplitWs(class), LAMBDA cls : Trim(cls) # "")

\* `.first` and, with more than one class, `.a.b.c`
firstAndCombined(classes) ==
    IF classes = <<>> THEN <<>>
    ELSE <<"." \o classes[1]>>
         \o (IF Len(classes) > 1 THEN <<"." \o Join(classes, ".")>> ELSE <<>>)

addComponentClassSelectors(el, framework) ==
    IF ~Truthy(el.class) THEN <<>>
    ELSE LET classes == classTokens(el.class)
         IN  IF framework = "spectra"
             THEN firstAndCombined(Filter(classes,
                      LAMBDA cls : StartsWith(cls, "sp-") \/ StartsWith(cls, "oj-spectra-")))
             ELSE IF framework = "jet"
             THEN firstAndCombined(Filter(classes,
                      LAMBDA cls : /\ StartsWith(cls, "oj-")
                                   /\ ~StartsWith(cls, "oj-spectra-")
                                   /\ ~StartsWith(cls, "oj-redwood-")))
             ELSE IF framework = "redwood"
             THEN firstAndCombined(Filter(classes,
                      LAMBDA cls : StartsWith(cls, "oj-redwood-")))
             ELSE <<>>

addAriaSelectors(el, labelText) ==
    LET attrs == el.attributes
        label == Or(Get(attrs, "ariaLabel"), Get(attrs, "aria-label"))
        labelledBy == Or(Get(attrs, "ariaLabelledby"), Get(attrs, "aria-labelledby"))
        tag == Or(el.tag, "*")
    IN  (IF Truthy(label) THEN <<attrSelector("aria-label", label)>> ELSE <<>>)
        \o (IF Truthy(labelledBy)
            THEN <<attrSelector("aria-labelledby", labelledBy)>> ELSE <<>>)
        \o (IF Truthy(labelText) THEN <<attrXPath(tag, "aria-label", labelText)>> ELSE <<>>)

addTypeSelectors(el) ==
    LET attrs == el.attributes
        type == Get(attrs, "type")
        name == Get(attrs, "name")
    IN  IF Truthy(type)
        THEN <<attrSelector("type", type)>>
             \o (IF Truthy(el.tag) THEN <<el.tag \o attrSelector("type", type)>> ELSE <<>>)
             \o (IF Truthy(name)
                 THEN <<Or(el.tag, "input") \o attrSelector("name", name)
                          \o attrSelector("type", type)>>
                 ELSE <<>>)
        ELSE <<>>

addPlaceholderSelectors(el, placeholderText) ==
    LET placeholder == Get(el.attributes, "placeholder")
    IN  (IF Truthy(placeholder)
         THEN <<attrSelector("placeholder", placeholder)>>
              \o (IF Truthy(el.tag)
                  THEN <<el.tag \o attrSelector("placeholder", placeholder)>> ELSE <<>>)
         ELSE <<>>)
        \o (IF Truthy(placeholderText)
            THEN <<attrXPath(Or(el.tag, "input"), "placeholder", placeholderText)>>
            ELSE <<>>)

\* variant whose partial text starts at more than 9 characters
addTextBasedXPathSelectorsFromTen(el, textContent, aggregatedText, labelText) ==
    LET tag == Or(el.tag, "*")
        textToUse == Or(aggregatedText, textContent)
        normalizedText == Trim(textToUse)
    IN  (IF Truthy(textToUse) /\ Trim(textToUse) # ""
            /\ Len(normalizedText) > 0 /\ Len(normalizedText) < 100
         THEN <<"//" \o tag \o "[normalize-space(text())=\""
                  \o escapeXPathString(normalizedText) \o "\"]">>
              \o (IF Len(normalizedText) > 9
                  THEN <<"//" \o tag \o "[contains(normalize-space(text()), \""
                           \o escapeXPathString(Sub(normalizedText, 1, 20))
                           \o "\")]">>
                  ELSE <<>>)
         ELSE <<>>)
        \o (IF Truthy(labelText) /\ Trim(labelText) # "" /\ Len(labelText) < 100
            THEN <<"//" \o tag \o "[normalize-space(.)=\""
                     \o escapeXPathString(Trim(labelText)) \o "\"]">>
            ELSE <<>>)

addTextBasedXPathSelectors(el, textContent, aggregatedText, labelText) ==
    LET tag == Or(el.tag, "*")
        textToUse == Or(aggregatedText, textContent)
        normalizedText == Trim(textToUse)
    IN  (IF Truthy(textToUse) /\ Trim(textToUse) # ""
            /\ Len(normalizedText) > 0 /\ Len(normalizedText) < TextLimit
         THEN <<"//" \o tag \o "[normalize-space(text())=\""
                  \o escapeXPathString(normalizedText) \o "\"]">>
              \o (IF Len(normalizedText) > PartialOver
                  THEN <<"//" \o tag \o "[contains(normalize-space(text()), \""
                           \o escapeXPathString(Sub(normalizedText, 1, PartialLength))
                           \o "\")]">>
                  ELSE <<>>)
         ELSE <<>>)
        \o (IF Truthy(labelText) /\ Trim(labelText) # "" /\ Len(labelText) < TextLimit
            THEN <<"//" \o tag \o "[normalize-space(.)=\""
                     \o escapeXPathString(Trim(labelText)) \o "\"]">>
            ELSE <<>>)

addStableClassSelectors(el) ==
    IF ~Truthy(el.class) THEN <<>>
    ELSE LET classes == Filter(classTokens(el.class), isStableClass)
         IN  IF classes = <<>> THEN <<>>
             ELSE <<"." \o classes[1]>>
                  \o (IF Len(classes) > 1 /\ Len(classes) <= 3
                      THEN <<"." \o Join(classes, ".")>> ELSE <<>>)

\* the XPath candidates one pass over Object.entries(attrs) pushes for the
\* keys that start with prefix
RECURSIVE prefixedAttrXPaths(_, _, _)
prefixedAttrXPaths(tag, attrs, prefix) ==
    IF attrs = <<>> THEN <<>>
    ELSE (IF StartsWith(attrs[1][1], prefix) /\ Truthy(attrs[1][2])
          THEN <<attrXPath(tag, attrs[1][1], attrs[1][2])>> ELSE <<>>)
         \o prefixedAttrXPaths(tag, Tail(attrs), prefix)

addXPathFallbacks(el, framework) ==
    LET tag == Or(el.tag, "*")
        attrs == el.attributes
        name == Get(attrs, "name")
        role == Get(attrs, "role")
    IN  (IF Truthy(el.id) /\ isStableId(el.id) THEN <<attrXPath(tag, "id", el.id)>> ELSE <<>>)
        \o (IF Truthy(name) THEN <<attrXPath(tag, "name", name)>> ELSE <<>>)
        \o (IF Truthy(role) THEN <<attrXPath(tag, "role", role)>> ELSE <<>>)
        \o (IF framework = "spectra" THEN prefixedAttrXPaths(tag, attrs, "sp-")
            ELSE IF framework = "jet" THEN prefixedAttrXPaths(tag, attrs, "data-oj-")
            ELSE <<>>)

\* variant without the slice
finalSelectorsUnsliced(all) == all

\* variant whose candidate list is not emptied between the calls
finalSelectorsCarriedOver(all) ==
    LET kept == (IF previous = <<>> THEN <<>> ELSE previous[1].result.selectors) \o all
    IN  SubSeq(kept, 1, IF Len(kept) < 5 THEN Len(kept) ELSE 5)

\* selectors.slice(0, 5)
finalSelectors(all) == SubSeq(all, 1, IF Len(all) < MaxSelectors THEN Len(all) ELSE MaxSelectors)

\* variant that appends the stable id selectors ahead of the test ids
allCandidatesIdFirst(ns, rts, e, opts) ==
    LET el == ns[e]
        prioritize == Opt(opts, "prioritizeComponentFramework", TRUE)
        deep == Opt(opts, "extractDeepText", TRUE)
        spans == Opt(opts, "aggregateSpanText", TRUE)
        componentFramework == detectComponentFramework(ns, e)
        textContent == IF deep THEN extractDeepText(ns, e) ELSE Null
        labelText == IF deep THEN extractLabelText(ns, rts, e) ELSE Null
        placeholderText == IF deep THEN extractPlaceholderText(ns, rts, e) ELSE Null
        aggregatedText == IF spans THEN aggregateSpanText(ns, rts, e) ELSE Null
    IN  addStableIdSelectors(el)
        \o addTestIdSelectors(el)
        \o (IF prioritize THEN addComponentSpecificSelectors(el, componentFramework) ELSE <<>>)
        \o addNameSelectors(el)
        \o (IF prioritize THEN addComponentClassSelectors(el, componentFramework) ELSE <<>>)
        \o addAriaSelectors(el, labelText)
        \o addTypeSelectors(el)
        \o addPlaceholderSelectors(el, placeholderText)
        \o (IF deep \/ spans
            THEN addTextBasedXPathSelectors(el, textContent, aggregatedText, labelText)
            ELSE <<>>)
        \o addStableClassSelectors(el)
        \o addXPathFallbacks(el, componentFramework)

\* the candidates of all tiers, in the order generateLocators appends them
allCandidates(ns, rts, e, opts) ==
    LET el == ns[e]
        prioritize == Opt(opts, "prioritizeComponentFramework", TRUE)
        deep == Opt(opts, "extractDeepText", TRUE)
        spans == Opt(opts, "aggregateSpanText", TRUE)
        componentFramework == detectComponentFramework(ns, e)
        textContent == IF deep THEN extractDeepText(ns, e) ELSE Null
        labelText == IF deep THEN extractLabelText(ns, rts, e) ELSE Null
        placeholderText == IF deep THEN extractPlaceholderText(ns, rts, e) ELSE Null
        aggregatedText == IF spans THEN aggregateSpanText(ns, rts, e) ELSE Null
    IN  addTestIdSelectors(el)
        \o (IF prioritize THEN addComponentSpecificSelectors(el, componentFramework) ELSE <<>>)
        \o addStableIdSelectors(el)
        \o addNameSelectors(el)
        \o (IF prioritize THEN addComponentClassSelectors(el, componentFramework) ELSE <<>>)
        \o addAriaSelectors(el, labelText)
        \o addTypeSelectors(el)
        \o addPlaceholderSelectors(el, placeholderText)
        \o (IF deep \/ spans
            THEN addTextBasedXPathSelectors(el, textContent, aggregatedText, labelText)
            ELSE <<>>)
        \o addStableClassSelectors(el)
        \o addXPathFallbacks(el, componentFramework)

generateLocators(ns, rts, e, opts) ==
    LET deep == Opt(opts, "extractDeepText", TRUE)
        spans == Opt(opts, "aggregateSpanText", TRUE)
        textContent == IF deep THEN extractDeepText(ns, e) ELSE Null
        aggregatedText == IF spans THEN aggregateSpanText(ns, rts, e) ELSE Null
    IN  [selectors |-> finalSelectors(allCandidates(ns, rts, e, opts)),
         componentFramework |-> detectComponentFramework(ns, e),
         textContent |-> Or(Or(textContent, aggregatedText), Null),
         labelText |-> IF deep THEN extractLabelText(ns, rts, e) ELSE Null,
         placeholderText |-> IF deep THEN extractPlaceholderText(ns, rts, e) ELSE Null]

-----------------------------------------------------------------------------
(* locator-validator *)

Quote == {"\"", "'"}

isValidSelectorSyntax(selector) ==
    IF StartsWith(selector, "//")
    THEN Len(selector) >= 3 /\ CharAt(selector, 3) \notin WhiteSpace
    ELSE IF Includes(selector, ":contains(") THEN FALSE
    ELSE \/ LET from == IF CharAt(selector, 1) \in {"#", ".", "["} THEN 2 ELSE 1
            IN  CharAt(selector, from) \in Letter \cup Digit \cup {"_", "-"}
         \/ StartsWith(selector, "[")

\* selector.match(/\[([^\]]+)\]/): the text between the leftmost "[" that is
\* followed by at least one character other than "]" and the next "]";
\* <<>> when the pattern matches nowhere
bracketMatch(selector) ==
    LET hits == {i \in 1..Len(selector) :
                    /\ CharAt(selector, i) = "["
                    /\ IndexFrom(selector, "]", i + 1) > i + 1}
    IN  IF hits = {} THEN <<>>
        ELSE LET i == CHOOSE k \in hits : \A j \in hits : k <= j
             IN  <<Sub(selector, i + 1, IndexFrom(selector, "]", i + 1) - 1)>>

\* selector.match(/^(\w+)\[(.+)\]$/): <<tag, attrExpr>> or <<>>
combinedMatch(selector) ==
    LET n == RunLen(selector, 1, WordChar)
    IN  IF /\ n >= 1
           /\ CharAt(selector, n + 1) = "["
           /\ Len(selector) >= n + 3
           /\ CharAt(selector, Len(selector)) = "]"
        THEN <<Sub(selector, 1, n), Sub(selector, n + 2, Len(selector) - 1)>>
        ELSE <<>>

\* attrExpr.split('=').map(s => s.trim().replace(/["']/g, ''))
attrExprParts(attrExpr) ==
    LET parts == SplitChar(attrExpr, "=")
    IN  [i \in DOMAIN parts |-> RemoveAll(Trim(parts[i]), Quote)]

\* the key the validator tries second: attrName.replace(/-/g, '')
withoutHyphens(attrName) == RemoveAll(attrName, {"-"})

\* the attribute test both CSS branches and the XPath branch share
attrTest(attrs, parts) ==
    LET attrName == parts[1]
        attrValue == IF Len(parts) >= 2 THEN parts[2] ELSE Undefined
    IN  IF Truthy(attrValue)
        THEN Or(Get(attrs, attrName), Get(attrs, withoutHyphens(attrName))) = attrValue
        ELSE HasKey(attrs, attrName) \/ HasKey(attrs, withoutHyphens(attrName))

matchesCSS(el, selector) ==
    LET attrs == el.attributes
    IN  IF StartsWith(selector, "#")
        THEN el.id = Sub(selector, 2, Len(selector))
        ELSE IF StartsWith(selector, ".")
        THEN LET classes == SplitChar(Sub(selector, 2, Len(selector)), ".")
                 elementClasses == SplitWs(Or(el.class, ""))
             IN  \A i \in DOMAIN classes :
                     \E j \in DOMAIN elementClasses : elementClasses[j] = classes[i]
        ELSE IF bracketMatch(selector) # <<>>
        THEN attrTest(attrs, attrExprParts(bracketMatch(selector)[1]))
        ELSE IF el.tag = selector THEN TRUE
        ELSE IF combinedMatch(selector) # <<>> /\ el.tag = combinedMatch(selector)[1]
        THEN attrTest(attrs, attrExprParts(combinedMatch(selector)[2]))
        ELSE FALSE

\* the leftmost position of hits, 0 when hits is empty
Leftmost(hits) == IF hits = {} THEN 0 ELSE CHOOSE i \in hits : \A j \in hits : i <= j

\* xpath.match(/\/\/(\w+)\[@([^=]+)=["']([^"']+)["']\]/) tried at position i:
\* <<tag, attrName, attrValue>>, or <<>> when the pattern does not match there
attrXPathAt(xpath, i) ==
    LET n == RunLen(xpath, i + 2, WordChar)
        p == i + 2 + n
        q == IndexFrom(xpath, "=", p + 2)
        m == RunLenNot(xpath, q + 2, Quote)
        r == q + 2 + m
    IN  IF /\ Sub(xpath, i, i + 1) = "//"
           /\ n >= 1
           /\ Sub(xpath, p, p + 1) = "[@"
           /\ q > p + 2
           /\ CharAt(xpath, q + 1) \in Quote
           /\ m >= 1
           /\ CharAt(xpath, r) \in Quote
           /\ CharAt(xpath, r + 1) = "]"
        THEN <<Sub(xpath, i + 2, p - 1), Sub(xpath, p + 2, q - 1), Sub(xpath, q + 2, r - 1)>>
        ELSE <<>>

attrXPathMatch(xpath) ==
    LET i == Leftmost({k \in 1..Len(xpath) : attrXPathAt(xpath, k) # <<>>})
    IN  IF i = 0 THEN <<>> ELSE attrXPathAt(xpath, i)

\* /\/\/(\w+)\[ lit \s* ["']([^"']+)["'] close / tried at position i (the \s*
\* only when ws): <<tag, textValue>> or <<>>
textXPathAt(xpath, i, lit, ws, close) ==
    LET n == RunLen(xpath, i + 2, WordChar)
        p == i + 2 + n
        q == p + 1 + Len(lit) + (IF ws THEN RunLen(xpath, p + 1 + Len(lit), WhiteSpace) ELSE 0)
        m == RunLenNot(xpath, q + 1, Quote)
        r == q + 1 + m
    IN  IF /\ Sub(xpath, i, i + 1) = "//"
           /\ n >= 1
           /\ CharAt(xpath, p) = "["
           /\ Sub(xpath, p + 1, p + Len(lit)) = lit
           /\ CharAt(xpath, q) \in Quote
           /\ m >= 1
           /\ CharAt(xpath, r) \in Quote
           /\ Sub(xpath, r + 1, r + Len(close)) = close
        THEN <<Sub(xpath, i + 2, p - 1), Sub(xpath, q + 1, r - 1)>>
        ELSE <<>>

textXPathMatch(xpath, lit, ws, close) ==
    LET i == Leftmost({k \in 1..Len(xpath) : textXPathAt(xpath, k, lit, ws, close) # <<>>})
    IN  IF i = 0 THEN <<>> ELSE textXPathAt(xpath, i, lit, ws, close)

\* the body of matchesXPath once the three patterns were tried on the xpath
matchesXPathGroups(el, attrMatch, textMatch, normalizeMatch) ==
    LET attrs == el.attributes
    IN  IF attrMatch # <<>> /\ (el.tag = attrMatch[1] \/ attrMatch[1] = "*")
        THEN Or(Get(attrs, Trim(attrMatch[2])),
                Get(attrs, withoutHyphens(Trim(attrMatch[2])))) = attrMatch[3]
        ELSE IF textMatch # <<>> /\ (el.tag = textMatch[1] \/ textMatch[1] = "*")
        THEN Includes(Or(el.text, ""), textMatch[2])
        ELSE IF normalizeMatch # <<>>
                /\ (el.tag = normalizeMatch[1] \/ normalizeMatch[1] = "*")
        THEN CollapseWs(Trim(Or(el.text, ""))) = normalizeMatch[2]
        ELSE FALSE

matchesXPath(el, xpath) ==
    matchesXPathGroups(el,
                       attrXPathMatch(xpath),
                       textXPathMatch(xpath, "contains(text(),", TRUE, ")]"),
                       textXPathMatch(xpath, "normalize-space(text())=", FALSE, "]"))

matchesSelector(el, selector) ==
    IF StartsWith(selector, "//") THEN matchesXPath(el, selector)
    ELSE matchesCSS(el, selector)

\* searchElements over the elements els and everything below them: the
\* matching nodes in the order the search pushes them
RECURSIVE searchElements(_, _, _)
searchElements(ns, els, selector) ==
    IF els = <<>> THEN <<>>
    ELSE (IF matchesSelector(ns[els[1]], selector) THEN <<els[1]>> ELSE <<>>)
         \o searchElements(ns, ns[els[1]].children, selector)
         \o searchElements(ns, Tail(els), selector)

\* variant that does not descend into children
findElementsBySelectorTopLevel(selector, ns, rts) ==
    SelectSeq(rts, LAMBDA k : matchesSelector(ns[k], selector))

findElementsBySelector(selector, ns, rts) == searchElements(ns, rts, selector)

\* variant that consults the id before the uid
isSameElementIdFirst(element1, element2) ==
    LET attrs1 == element1.attributes
        attrs2 == element2.attributes
        testId1 == Or(Get(attrs1, "dataTestid"), Get(attrs1, "data-testid"))
        testId2 == Or(Get(attrs2, "dataTestid"), Get(attrs2, "data-testid"))
        name1 == Get(attrs1, "name")
        name2 == Get(attrs2, "name")
    IN  IF Truthy(element1.id) /\ Truthy(element2.id)
        THEN element1.id = element2.id
        ELSE IF Truthy(element1.uid) /\ Truthy(element2.uid)
        THEN element1.uid = element2.uid
        ELSE IF Truthy(element1._uid) /\ Truthy(element2._uid)
        THEN element1._uid = element2._uid
        ELSE IF Truthy(testId1) /\ Truthy(testId2)
        THEN testId1 = testId2
        ELSE IF element1.tag = element2.tag
        THEN Truthy(name1) /\ Truthy(name2) /\ name1 = name2
        ELSE FALSE

isSameElement(element1, element2) ==
    LET attrs1 == element1.attributes
        attrs2 == element2.attributes
        testId1 == Or(Get(attrs1, "dataTestid"), Get(attrs1, "data-testid"))
        testId2 == Or(Get(attrs2, "dataTestid"), Get(attrs2, "data-testid"))
        name1 == Get(attrs1, "name")
        name2 == Get(attrs2, "name")
    IN  IF Truthy(element1.uid) /\ Truthy(element2.uid)
        THEN element1.uid = element2.uid
        ELSE IF Truthy(element1._uid) /\ Truthy(element2._uid)
        THEN element1._uid = element2._uid
        ELSE IF Truthy(element1.id) /\ Truthy(element2.id)
        THEN element1.id = element2.id
        ELSE IF Truthy(testId1) /\ Truthy(testId2)
        THEN testId1 = testId2
        ELSE IF element1.tag = element2.tag
        THEN Truthy(name1) /\ Truthy(name2) /\ name1 = name2
        ELSE FALSE

\* the verdict of validateSelector on the elements the selector matches
selectorVerdict(selector, ns, target, matchingElements) ==
        IF ~isValidSelectorSyntax(selector)
        THEN [selector |-> selector, isValid |-> FALSE,
              reason |-> "Invalid selector syntax",
              elementFound |-> FALSE, matchesTargetElement |-> FALSE,
              suggestion |-> "Fix selector syntax or use valid CSS/XPath"]
        ELSE IF Len(matchingElements) = 0
        THEN [selector |-> selector, isValid |-> FALSE,
              reason |-> "No elements found matching selector",
              elementFound |-> FALSE, matchesTargetElement |-> FALSE,
              suggestion |-> "Selector does not match any element in snapshot. Verify attributes are correct."]
        ELSE IF Len(matchingElements) > 1
        THEN [selector |-> selector, isValid |-> FALSE,
              reason |-> "Multiple elements found (" \o ToString(Len(matchingElements)) \o ")",
              elementFound |-> TRUE, matchesTargetElement |-> FALSE,
              suggestion |-> "Selector is not unique. Add more specific attributes or use parent context."]
        ELSE IF ~isSameElement(ns[matchingElements[1]], ns[target])
        THEN [selector |-> selector, isValid |-> FALSE,
              reason |-> "Selector matches different element",
              elementFound |-> TRUE, matchesTargetElement |-> FALSE,
              suggestion |-> "Selector is too generic. Use more specific attributes or component-specific locators."]
        ELSE [selector |-> selector, isValid |-> TRUE,
              reason |-> "Selector matches target element",
              elementFound |-> TRUE, matchesTargetElement |-> TRUE,
              suggestion |-> Undefined]

validateSelector(selector, ns, rts, target) ==
    selectorVerdict(selector, ns, target, findElementsBySelector(selector, ns, rts))

\* number of entries of xs that satisfy P: xs.filter(P).length
Count(xs, P(_)) == Len(SelectSeq(xs, P))

\* the report validateLocators builds from the results of its loop
validationReportOf(el, generatedLocators, results) ==
    LET sels == generatedLocators.selectors
        failed == SelectSeq(results, LAMBDA r : ~r.isValid /\ Truthy(r.suggestion))
        suggestions == [i \in DOMAIN failed |-> failed[i].suggestion]
        validSelectors == Count(results, LAMBDA r : r.isValid)
        invalidSelectors == Count(results, LAMBDA r : ~r.isValid)
    IN  [elementUid |-> Or(el.uid, el._uid),
         elementTag |-> el.tag,
         totalSelectors |-> Len(sels),
         validSelectors |-> validSelectors,
         invalidSelectors |-> invalidSelectors,
         results |-> results,
         recommendations |->
            suggestions
            \o (IF invalidSelectors = Len(sels)
                THEN <<"ALL selectors failed validation. Take fresh MCP snapshot and regenerate locators.",
                       "Verify element still exists and attributes have not changed.">>
                ELSE IF invalidSelectors > 0
                THEN <<ToString(invalidSelectors)
                         \o " selector(s) failed. Keep valid selectors, regenerate failed ones.">>
                ELSE <<>>),
         warnings |->
            (IF /\ ~Truthy(el.id)
                /\ ~Truthy(Get(el.attributes, "dataTestid"))
                /\ ~Truthy(Get(el.attributes, "data-testid"))
             THEN <<"Element has no stable ID or test ID. Consider adding data-testid attribute.">>
             ELSE <<>>)
            \o (IF ~Truthy(generatedLocators.componentFramework)
                   \/ generatedLocators.componentFramework = "html"
                THEN <<"Component framework not detected. Verify parent elements are captured in snapshot.">>
                ELSE <<>>)
            \o (IF ~Truthy(generatedLocators.textContent) /\ ~Truthy(generatedLocators.labelText)
                THEN <<"No text content found. Text-based XPath selectors may not work.">>
                ELSE <<>>)]

validateLocators(ns, rts, target, generatedLocators) ==
    validationReportOf(ns[target], generatedLocators,
                       [i \in DOMAIN generatedLocators.selectors |->
                           validateSelector(generatedLocators.selectors[i], ns, rts, target)])

-----------------------------------------------------------------------------
(* locator-validation-helper *)

\* generatedLocators.selectors.some(s => !s.startsWith('//'))
someCSS(sels) == Some(sels, LAMBDA s : ~StartsWith(s, "//"))

\* variant asking every selector to be an XPath
someXPathEvery(sels) == \A i \in DOMAIN sels : StartsWith(sels[i], "//")

\* generatedLocators.selectors.some(s => s.startsWith('//'))
someXPath(sels) == Some(sels, LAMBDA s : StartsWith(s, "//"))

\* the result generateAndValidateLocators builds from the generated
\* locators and their validation report
workflowResult(ns, target, opts, generatedLocators, validationReport) ==
    LET minValidSelectors == Opt(opts, "minValidSelectors", 2)
        requireCSS == Opt(opts, "requireCSS", TRUE)
        requireXPath == Opt(opts, "requireXPath", TRUE)
        autoRetry == Opt(opts, "autoRetry", FALSE)
        hasMinSelectors == validationReport.validSelectors >= minValidSelectors
        hasCSS == ~requireCSS \/ someCSS(generatedLocators.selectors)
        hasXPath == ~requireXPath \/ someXPath(generatedLocators.selectors)
        success == hasMinSelectors /\ hasCSS /\ hasXPath
    IN  [success |-> success,
         elementUid |-> Or(ns[target].uid, ns[target]._uid),
         elementTag |-> ns[target].tag,
         generatedLocators |-> generatedLocators,
         validationReport |-> validationReport,
         needsRetry |-> ~success /\ autoRetry,
         recommendations |->
            (IF ~hasMinSelectors
             THEN <<"Need at least " \o ToString(minValidSelectors)
                      \o " valid selectors, but only "
                      \o ToString(validationReport.validSelectors) \o " are valid.">>
             ELSE <<>>)
            \o (IF requireCSS /\ ~hasCSS
                THEN <<"No valid CSS selectors found. Add CSS selector options.">> ELSE <<>>)
            \o (IF requireXPath /\ ~hasXPath
                THEN <<"No valid XPath selectors found. Add XPath fallback options.">>
                ELSE <<>>)
            \o validationReport.recommendations]

\* steps 2 and 3 of generateAndValidateLocators: validate, then decide
validateGenerated(ns, rts, target, opts, generatedLocators) ==
    workflowResult(ns, target, opts, generatedLocators,
                   validateLocators(ns, rts, target, generatedLocators))

generateAndValidateLocators(ns, rts, target, opts) ==
    validateGenerated(ns, rts, target, opts, generateLocators(ns, rts, target, opts))

-----------------------------------------------------------------------------
(* Snapshots *)

\* one ElementData record without its links
El(tag, id, class, text, uid, attrs) ==
    [tag |-> tag, id |-> id, class |-> class, text |-> text, uid |-> uid,
     _uid |-> Undefined, attributes |-> attrs]

\* the arena built from the records els and the parent index of each
\* (0: a top-level element); children keep the order of the indices
Arena(els, parents) ==
    [i \in DOMAIN els |->
        [tag |-> els[i].tag, id |-> els[i].id, class |-> els[i].class,
         text |-> els[i].text, uid |-> els[i].uid, _uid |-> els[i]._uid,
         attributes |-> els[i].attributes,
         parent |-> parents[i],
         children |-> SelectSeq([j \in DOMAIN els |-> j],
                                LAMBDA j : parents[j] = i)]]

TopLevel(parents) == SelectSeq([j \in DOMAIN parents |-> j], LAMBDA j : parents[j] = 0)

\* the options object {}
NoOptions == [k \in {} |-> TRUE]

-----------------------------------------------------------------------------
(* Framework classification of an element below a chain of ancestors *)

\* longest chain of nodes, the element included
MaxChain == 7
\* most nodes of a chain that carry a framework indicator
MaxMarked == 2

Plain == El("div", Undefined, "wrapper", Undefined, Undefined, <<>>)

MarkedKinds ==
    {El("div", Undefined, "sp-button primary", Undefined, Undefined, <<>>),
     El("div", Undefined, "panel oj-spectra-card", Undefined, Undefined, <<>>),
     El("oj-input-text", Undefined, Undefined, Undefined, Undefined, <<>>),
     El("div", Undefined, "oj-button", Undefined, Undefined, <<>>),
     El("div", Undefined, "oj-redwood-card", Undefined, Undefined, <<>>),
     El("div", Undefined, Undefined, Undefined, Undefined, <<<<"theme", "redwood-dark">>>>),
     El("div", Undefined, "oj-button sp-input", Undefined, Undefined,
        <<<<"redwood-size", "m">>>>)}

\* a chain of len nodes, node 1 the root and node len the element; the
\* nodes of marked carry the indicators kinds gives them
ChainArena(len, marked, kinds) ==
    Arena([i \in 1..len |-> IF i \in marked THEN kinds[i] ELSE Plain],
          [i \in 1..len |-> i - 1])

InitDetect ==
    /\ \E len \in 1..MaxChain :
         \E marked \in {m \in SUBSET (1..len) : Cardinality(m) <= MaxMarked} :
           \E kinds \in [marked -> MarkedKinds] :
             /\ nodes = ChainArena(len, marked, kinds)
             /\ roots = <<1>>
             /\ element = len
    /\ options = NoOptions
    /\ selectors = <<>>
    /\ previous = <<>>
    /\ NoBrowserSide
    /\ elements = <<>>
    /\ str = Undefined
    /\ op = "idle"
    /\ result = Undefined

DetectComponentFramework ==
    /\ op = "idle"
    /\ op' = "detectComponentFramework"
    /\ result' = detectComponentFramework(nodes, element)
    /\ UNCHANGED inputs

NextDetect == DetectComponentFramework

SpecDetect == InitDetect /\ [][NextDetect]_vars

-----------------------------------------------------------------------------
(* Locator synthesis for one element *)

\* ids the stability test has to judge: the four rejected forms, in both
\* letter cases, and near misses of each
Ids ==
    {Undefined, "login", "user-name", "submitBtn",
     "123456", "12a",
     "a1b2c3d4e5f6a1b2c3d4e5f6a1b2c3d4", "x-A1B2C3D4E5F6A1B2C3D4E5F6A1B2C3D4E5-y",
     "a1b2c3d4e5f6a1b2c3d4e5f6a1b2c3d",
     "timestamp_1699999999", "myRandomBox", "TempPanel", "argent", "GENERIC",
     "element-12345", "Row-7", "row-7a", "sp-field"}

ClassNames ==
    {Undefined, "sp-button primary", "oj-button oj-text card",
     "oj-redwood-card", "abcdefghijkl btn-x  large"}

Texts == {Undefined, "Sign in to your account"}

AttributeSets ==
    {<<>>,
     <<<<"name", "user">>, <<"type", "text">>, <<"placeholder", "Your name">>>>,
     <<<<"data-testid", "login-btn">>, <<"sp-id", "a">>, <<"data-oj-x", "b">>,
       <<"role", "button">>, <<"aria-label", "Sign in">>>>}

GenerationOptions ==
    {NoOptions,
     [prioritizeComponentFramework |-> FALSE],
     [extractDeepText |-> FALSE],
     [extractDeepText |-> FALSE, aggregateSpanText |-> FALSE]}

InitLocators ==
    /\ \E id \in Ids : \E class \in ClassNames : \E text \in Texts :
         \E attrs \in AttributeSets :
           nodes = Arena(<<El("input", id, class, text, "e1", attrs)>>, <<0>>)
    /\ roots = <<1>>
    /\ element = 1
    /\ options = NoOptions
    /\ selectors = <<>>
    /\ previous = <<>>
    /\ NoBrowserSide
    /\ elements = <<>>
    /\ str = Undefined
    /\ op = "idle"
    /\ result = Undefined

GenerateLocators ==
    /\ op = "idle"
    /\ \E o \in GenerationOptions :
         /\ options' = o
         /\ result' = generateLocators(nodes, roots, element, o)
    /\ op' = "generateLocators"
    /\ UNCHANGED <<nodes, roots, element, selectors, str, elements, previous, browserSide>>

NextLocators == GenerateLocators

SpecLocators == InitLocators /\ [][NextLocators]_vars

-----------------------------------------------------------------------------
(* Claims on the synthesized list *)

\* C4: the selector list generateLocators returns has at most 5 entries,
\* however many candidates the tiers contributed.
C4_AtMostFiveSelectors ==
    op = "generateLocators" => Len(result.selectors) <= 5

\* the tiers contributed more than 5 candidates and 5 were returned
C4_Witness ==
    /\ op = "generateLocators"
    /\ Len(allCandidates(nodes, roots, element, options)) > 5
    /\ Len(result.selectors) = 5

\* the ids the claim calls rejected: all digits; a run of 32 or more hex
\* digits; timestamp, random, temp or gen in any letter case; letters,
\* a hyphen, digits
RejectedId(id) ==
    \/ id # "" /\ \A i \in 1..Len(id) : CharAt(id, i) \in Digit
    \/ \E i \in 1..Len(id) :
         /\ i + 31 <= Len(id)
         /\ \A k \in i..(i + 31) : CharAt(id, k) \in HexDigit
    \/ \E w \in {"timestamp", "random", "temp", "gen"} : Includes(ToLower(id), w)
    \/ \E h \in 2..(Len(id) - 1) :
         /\ CharAt(id, h) = "-"
         /\ \A k \in 1..(h - 1) : CharAt(id, k) \in Letter
         /\ \A k \in (h + 1)..Len(id) : CharAt(id, k) \in Digit

\* a selector of the #id form, or an XPath with a test of @id
RefersToId(selector) ==
    \/ StartsWith(selector, "#")
    \/ StartsWith(selector, "//") /\ Includes(selector, "[@id=")

\* C5: for an element whose id the stability predicate rejects, no selector
\* of the list is the #id form or an XPath with an @id test, under any
\* option set and any framework classification.
C5_NoSelectorFromRejectedId ==
    (op = "generateLocators" /\ Truthy(nodes[element].id)
        /\ RejectedId(nodes[element].id))
    => \A i \in DOMAIN result.selectors : ~RefersToId(result.selectors[i])

\* an element with a rejected id got a list of selectors, none from the id
C5_Witness ==
    /\ op = "generateLocators"
    /\ Truthy(nodes[element].id)
    /\ RejectedId(nodes[element].id)
    /\ result.componentFramework # "html"
    /\ result.selectors # <<>>
    /\ \A i \in DOMAIN result.selectors : ~RefersToId(result.selectors[i])

-----------------------------------------------------------------------------
(* Synthesis and validation of one element of a page *)

\* most nodes of a page besides the element and its twin
MaxOthers == 1

TextInput == El("input", Undefined, Undefined, Undefined, Undefined, <<<<"type", "text">>>>)

TestIdButton ==
    El("button", Undefined, Undefined, Undefined, Undefined,
       <<<<"data-testid", "login-btn">>>>)

QuotedTestIdButton ==
    El("button", Undefined, Undefined, Undefined, Undefined,
       <<<<"data-testid", "say \"hi\"">>>>)

CamelTestIdButton ==
    El("button", Undefined, Undefined, Undefined, Undefined,
       <<<<"dataTestid", "login-btn">>>>)

LoginInput ==
    El("input", "login", "field", Undefined, Undefined,
       <<<<"name", "user">>, <<"type", "text">>>>)

SubmitButton ==
    El("button", "submitBtn", Undefined, "Submit", Undefined,
       <<<<"data-testid", "submit">>>>)

\* an input whose role value itself contains text of the //tag[@attr='value'] form
NotedInput ==
    El("input", Undefined, "note", Undefined, Undefined,
       <<<<"role", "//input[@zz='q']">>, <<"zz", "q">>>>)

RoleOnlyInput ==
    El("input", Undefined, Undefined, Undefined, Undefined,
       <<<<"role", "//input[@zz='q']">>, <<"zz", "q">>>>)

BareDiv == El("div", Undefined, Undefined, Undefined, Undefined, <<>>)

SpectraField ==
    El("sp-field", Undefined, "sp-input", Undefined, Undefined, <<<<"sp-id", "name">>>>)

TargetKinds ==
    {TextInput, TestIdButton, QuotedTestIdButton, CamelTestIdButton, LoginInput,
     SubmitButton, NotedInput, RoleOnlyInput, BareDiv, SpectraField}

\* the other nodes a page may hold, in the order they appear in it
ContextKinds ==
    <<El("select", Undefined, Undefined, Undefined, Undefined, <<<<"name", "user">>>>),
      El("div", Undefined, "note field", Undefined, Undefined, <<>>),
      El("button", Undefined, Undefined, Undefined, Undefined,
         <<<<"data-testid", "login-btn">>>>),
      El("div", Undefined, "oj-form", Undefined, Undefined, <<>>),
      El("label", Undefined, Undefined, "User name", Undefined, <<<<"for", "login">>>>),
      El("input", Undefined, "note", Undefined, Undefined, <<<<"name", "user">>>>)>>

\* the capture gives every node a uid ("e1", "e2", ...) or none
WithUids(els, uids) ==
    [i \in DOMAIN els |->
        [els[i] EXCEPT !.uid = IF uids THEN "e" \o ToString(i) ELSE Undefined]]

\* the page: the chosen context nodes, then the twin of the element (a
\* second node with the same fields) when there is one, then the element;
\* all of them top-level siblings (flat) or each the only child of the one
\* before it
PageEls(target, twin, others) ==
    [i \in 1..Cardinality(others) |->
        ContextKinds[CHOOSE k \in others : Cardinality({j \in others : j < k}) = i - 1]]
    \o (IF twin THEN <<target>> ELSE <<>>) \o <<target>>

PageParents(n, flat) == [i \in 1..n |-> IF flat THEN 0 ELSE i - 1]

InitPage ==
    /\ \E target \in TargetKinds : \E twin \in BOOLEAN : \E flat \in BOOLEAN :
         \E uids \in BOOLEAN :
           \E others \in {o \in SUBSET DOMAIN ContextKinds : Cardinality(o) <= MaxOthers} :
             LET els == WithUids(PageEls(target, twin, others), uids)
             IN  /\ nodes = Arena(els, PageParents(Len(els), flat))
                 /\ roots = TopLevel(PageParents(Len(els), flat))
                 /\ element \in {Len(els)} \cup (IF twin THEN {Len(els) - 1} ELSE {})
    /\ options = NoOptions
    /\ selectors = <<>>
    /\ previous = <<>>
    /\ NoBrowserSide
    /\ elements = <<>>
    /\ str = Undefined
    /\ op = "idle"
    /\ result = Undefined

\* selector lists a caller hands to validateLocators besides the generated one
HandWrittenSelectors ==
    {<<"input[type=\"text\"]", "button", "[data-testid]">>,
     <<"#login", ".note", ".note.field", "[name=\"user\"]">>,
     <<"//input[@name=\"user\"]", "//button[@data-testid='login-btn']",
       "//label[contains(text(), \"User\")]",
       "//label[normalize-space(text())=\"User name\"]">>,
     <<"a:contains(\"x\")", "// x", "*", "select[name=\"user\"]", "#">>}

\* validateLocators on the locators handed to it
ValidateGiven(generatedLocators) ==
    /\ selectors' = generatedLocators.selectors
    /\ result' = validateLocators(nodes, roots, element, generatedLocators)

ValidateLocators ==
    /\ op = "idle"
    /\ \E list \in HandWrittenSelectors
                     \cup {generateLocators(nodes, roots, element, NoOptions).selectors} :
         ValidateGiven([generateLocators(nodes, roots, element, NoOptions)
                           EXCEPT !.selectors = list])
    /\ op' = "validateLocators"
    /\ UNCHANGED <<nodes, roots, element, options, str, elements, previous, browserSide>>

WorkflowOptions ==
    {NoOptions,
     [minValidSelectors |-> 1],
     [minValidSelectors |-> 3],
     [requireCSS |-> FALSE],
     [requireXPath |-> FALSE],
     [minValidSelectors |-> 0, requireCSS |-> FALSE, requireXPath |-> FALSE],
     [minValidSelectors |-> 2, requireCSS |-> TRUE, requireXPath |-> TRUE],
     [minValidSelectors |-> 1, prioritizeComponentFramework |-> FALSE]}

GenerateAndValidateLocators ==
    /\ op = "idle"
    /\ \E o \in WorkflowOptions :
         /\ options' = o
         /\ result' = generateAndValidateLocators(nodes, roots, element, o)
    /\ op' = "generateAndValidateLocators"
    /\ UNCHANGED <<nodes, roots, element, selectors, str, elements, previous, browserSide>>

NextPage == ValidateLocators \/ GenerateAndValidateLocators

SpecPage == InitPage /\ [][NextPage]_vars

-----------------------------------------------------------------------------
(* Claims on the validation of a selector *)

\* the nodes of the snapshot, at any depth, that match the selector
Matching(selector) == {k \in DOMAIN nodes : matchesSelector(nodes[k], selector)}

\* the page is two sibling inputs of type text and nothing else
TwoTextInputs ==
    /\ Len(nodes) = 2
    /\ roots = <<1, 2>>
    /\ \A k \in 1..2 :
         /\ nodes[k].tag = "input"
         /\ nodes[k].attributes = <<<<"type", "text">>>>
         /\ ~Truthy(nodes[k].id) /\ ~Truthy(nodes[k].class)

\* C1: for an accepted selector the verdict follows from the number of
\* nodes of the snapshot, at every depth, that match it: none gives invalid
\* with "No elements found", n > 1 gives invalid with "Multiple elements
\* found (n)" whichever node is the target, one gives the identity
\* comparison of that node with the target ("matches different element"
\* when they differ).  With two sibling inputs of type text and nothing
\* else, input[type="text"] is invalid for the multiple-match reason.
C1_VerdictFollowsMatchCount ==
    op = "validateLocators" =>
        /\ Len(result.results) = Len(selectors)
        /\ \A i \in DOMAIN selectors :
             LET r == result.results[i]
                 hits == Matching(selectors[i])
                 n == Cardinality(hits)
             IN  isValidSelectorSyntax(selectors[i]) =>
                   /\ n = 0 => (~r.isValid /\ r.reason = "No elements found matching selector")
                   /\ n > 1 => /\ ~r.isValid
                               /\ r.reason = "Multiple elements found (" \o ToString(n) \o ")"
                   /\ n = 1 =>
                        /\ r.isValid = isSameElement(nodes[CHOOSE k \in hits : TRUE],
                                                     nodes[element])
                        /\ ~r.isValid => r.reason = "Selector matches different element"
        /\ TwoTextInputs =>
             \A i \in DOMAIN selectors :
                 selectors[i] = "input[type=\"text\"]" =>
                     /\ ~result.results[i].isValid
                     /\ result.results[i].reason = "Multiple elements found (2)"

\* input[type="text"] was validated against two sibling inputs of type text
\* and found to match both
C1_Witness ==
    /\ op = "validateLocators"
    /\ TwoTextInputs
    /\ \E i \in DOMAIN selectors :
         /\ selectors[i] = "input[type=\"text\"]"
         /\ ~result.results[i].isValid
         /\ result.results[i].reason = "Multiple elements found (2)"

-----------------------------------------------------------------------------
(* Claims on the verdict of the workflow *)

\* the options in force: what the caller gave, else the defaults
MinValid == Opt(options, "minValidSelectors", 2)
RequireCSS == Opt(options, "requireCSS", TRUE)
RequireXPath == Opt(options, "requireXPath", TRUE)

IsXPathForm(selector) == StartsWith(selector, "//")

\* positions of the report whose selector was found valid
ValidAt(report) == {i \in DOMAIN report.results : report.results[i].isValid}

ValidCSSAt(report) == {i \in ValidAt(report) : ~IsXPathForm(report.results[i].selector)}
ValidXPathAt(report) == {i \in ValidAt(report) : IsXPathForm(report.results[i].selector)}

C3_SuccessMeansValidCssAndXPath ==
    (/\ op = "generateAndValidateLocators"
     /\ MinValid = 2 /\ RequireCSS /\ RequireXPath
     /\ result.success)
    => /\ Cardinality(ValidAt(result.validationReport)) >= 2
       /\ ValidCSSAt(result.validationReport) # {}
       /\ ValidXPathAt(result.validationReport) # {}

\* the value of the element's only attribute when that is data-testid
OnlyTestId(el) ==
    IF Len(el.attributes) = 1 /\ el.attributes[1][1] = "data-testid"
    THEN el.attributes[1][2] ELSE Undefined

\* nodes of the snapshot that carry the test id v
CarryingTestId(v) ==
    {k \in DOMAIN nodes :
        Or(Get(nodes[k].attributes, "dataTestid"),
           Get(nodes[k].attributes, "data-testid")) = v}

\* the test-id selector of some value: [data-testid="..."]
IsTestIdSelector(selector) ==
    /\ StartsWith(selector, "[data-testid=\"")
    /\ Sub(selector, Len(selector) - 1, Len(selector)) = "\"]"

\* C6 as claimed: for a node whose only attribute is data-testid = v, in a
\* snapshot where exactly one node carries that value, the first selector
\* is the test-id selector and it validates with isValid and
\* matchesTargetElement true, with or without a uid.
C6_TestIdRoundTrip ==
    (/\ op = "generateAndValidateLocators"
     /\ Truthy(OnlyTestId(nodes[element]))
     /\ CarryingTestId(OnlyTestId(nodes[element])) = {element})
    => /\ result.generatedLocators.selectors # <<>>
       /\ IsTestIdSelector(result.generatedLocators.selectors[1])
       /\ result.validationReport.results[1].isValid
       /\ result.validationReport.results[1].matchesTargetElement

\* C7 as claimed: under minValidSelectors = 2, requireCSS and requireXPath,
\* an element with exactly 1 valid XPath-form selector and no valid CSS-form
\* selector gets success = false and a recommendation that mentions the
\* missing CSS selector.
C7_MissingCssIsRecommended ==
    (/\ op = "generateAndValidateLocators"
     /\ MinValid = 2 /\ RequireCSS /\ RequireXPath
     /\ Cardinality(ValidXPathAt(result.validationReport)) = 1
     /\ ValidCSSAt(result.validationReport) = {})
    => /\ ~result.success
       /\ \E i \in DOMAIN result.recommendations :
            Includes(result.recommendations[i], "CSS")

-----------------------------------------------------------------------------
(* Label resolution for an input inside nested wrappers *)

\* most wrappers between the root of the page and the input
MaxWrappers == 5

\* what the input itself carries
AriaLabels == {Undefined, "Name", "  "}
LabelledBys == {Undefined, "lbl"}
InputIds == {Undefined, "u1"}

\* the nodes with id "lbl" the page holds, in document order
ReferencedNodes ==
    {<<>>,
     <<El("span", "lbl", Undefined, "Ref text", Undefined, <<>>)>>,
     <<El("span", "lbl", Undefined, " ", Undefined, <<>>)>>,
     <<El("span", "lbl", Undefined, "First", Undefined, <<>>),
       El("span", "lbl", Undefined, "Second", Undefined, <<>>)>>}

\* a label placed among the children of one ancestor of the input: the
\* label and the text of the span inside it
SiblingLabels ==
    {<<>>,
     <<El("label", Undefined, Undefined, Undefined, Undefined, <<<<"for", "u1">>>>), "Username">>,
     <<El("label", Undefined, Undefined, "User", Undefined, <<<<"htmlFor", "u1">>>>), "name">>,
     <<El("label", Undefined, Undefined, Undefined, Undefined, <<<<"for", "u1">>>>), " ">>,
     <<El("label", Undefined, Undefined, "Other", Undefined, <<>>), Undefined>>,
     <<El("label", Undefined, Undefined, "Else", Undefined, <<<<"for", "u2">>>>), Undefined>>}

\* the page: node 1 the root, nodes 2..wrappers+1 a chain of wrappers below
\* it, then the input; the ancestor labelAt levels above the input is a
\* label with text (0: none).  After the input come the nodes with id
\* "lbl" (children of the root) and the sibling label with its span (the
\* label a child of the ancestor siblingAt levels above the input).
LabelPageEls(wrappers, labelAt, aria, labelledBy, id, refs, sibling) ==
    LET t == wrappers + 2
    IN  [i \in 1..(t - 1) |->
            IF t - i = labelAt
            THEN El("label", Undefined, Undefined, "Wrapped", Undefined, <<>>)
            ELSE El("div", Undefined, Undefined, Undefined, Undefined, <<>>)]
        \o <<El("input", id, Undefined, Undefined, Undefined,
                (IF aria = Undefined THEN <<>> ELSE <<<<"aria-label", aria>>>>)
                \o (IF labelledBy = Undefined THEN <<>>
                    ELSE <<<<"aria-labelledby", labelledBy>>>>))>>
        \o refs
        \o (IF sibling = <<>> THEN <<>>
            ELSE <<sibling[1],
                   El("span", Undefined, Undefined, sibling[2], Undefined, <<>>)>>)

LabelPageParents(wrappers, refs, sibling, siblingAt) ==
    LET t == wrappers + 2
    IN  [i \in 1..t |-> i - 1]
        \o [i \in DOMAIN refs |-> 1]
        \o (IF sibling = <<>> THEN <<>> ELSE <<t - siblingAt, t + Len(refs) + 1>>)

InitLabel ==
    /\ \E wrappers \in 0..MaxWrappers : \E labelAt \in 0..(wrappers + 1) :
         \E aria \in AriaLabels : \E labelledBy \in LabelledBys : \E id \in InputIds :
           \E refs \in ReferencedNodes : \E sibling \in SiblingLabels :
             \E siblingAt \in 1..(IF wrappers = 0 THEN 1 ELSE 2) :
               /\ (sibling = <<>> => siblingAt = 1)
               /\ nodes = Arena(LabelPageEls(wrappers, labelAt, aria, labelledBy, id,
                                             refs, sibling),
                                LabelPageParents(wrappers, refs, sibling, siblingAt))
               /\ element = wrappers + 2
    /\ roots = <<1>>
    /\ options = NoOptions
    /\ selectors = <<>>
    /\ previous = <<>>
    /\ NoBrowserSide
    /\ elements = <<>>
    /\ str = Undefined
    /\ op = "idle"
    /\ result = Undefined

ExtractLabelText ==
    /\ op = "idle"
    /\ op' = "extractLabelText"
    /\ result' = extractLabelText(nodes, roots, element)
    /\ UNCHANGED inputs

NextLabel == ExtractLabelText

SpecLabel == InitLabel /\ [][NextLabel]_vars

-----------------------------------------------------------------------------
(* Claims on the label resolution *)

\* the deep text of node k, "" for no node
TextOf(k) == IF k = 0 THEN "" ELSE extractDeepText(nodes, k)

\* first entry of the sequence of texts that is not empty, "" when all are
FirstNonEmpty(texts) ==
    LET full == {i \in DOMAIN texts : texts[i] # ""}
    IN  IF full = {} THEN "" ELSE texts[CHOOSE i \in full : \A j \in full : i <= j]

\* source 1: the node's own aria-label
OwnAriaLabel(e) ==
    LET v == Or(Get(nodes[e].attributes, "ariaLabel"), Get(nodes[e].attributes, "aria-label"))
    IN  IF Truthy(v) THEN Trim(v) ELSE ""

\* source 2: the first node in document order whose id is the
\* aria-labelledby value
LabelledByText(e) ==
    LET v == Or(Get(nodes[e].attributes, "ariaLabelledby"),
                Get(nodes[e].attributes, "aria-labelledby"))
        order == DocOrder(nodes, roots)
        named == {i \in DOMAIN order : nodes[order[i]].id = v}
    IN  IF ~Truthy(v) \/ named = {} THEN ""
        ELSE TextOf(order[CHOOSE i \in named : \A j \in named : i <= j])

\* a label whose for (or htmlFor) names the node's id
IsLabelFor(k, e) ==
    /\ nodes[k].tag = "label"
    /\ Truthy(nodes[e].id)
    /\ labelFor(nodes[k]) = nodes[e].id

\* source 3: a label of the snapshot for the node's id
LabelForText(e) ==
    LET order == DocOrder(nodes, roots)
        labels == {i \in DOMAIN order : IsLabelFor(order[i], e)}
    IN  IF labels = {} THEN ""
        ELSE TextOf(order[CHOOSE i \in labels : \A j \in labels : i <= j])

\* source 4 at one ancestor: the ancestor when it is a label, else its
\* label children for the node's id
AncestorLabelText(a, e) ==
    FirstNonEmpty(
        <<IF nodes[a].tag = "label" THEN TextOf(a) ELSE "">>
        \o [i \in DOMAIN nodes[a].children |->
               IF IsLabelFor(nodes[a].children[i], e)
               THEN TextOf(nodes[a].children[i]) ELSE ""])

\* source 4: the walk over up to 5 ancestors, nearest first
AncestorWalkText(e) ==
    LET chain == ParentChain(nodes, e, 5)
    IN  FirstNonEmpty([i \in DOMAIN chain |-> AncestorLabelText(chain[i], e)])

LabelSources(e) ==
    <<OwnAriaLabel(e), LabelledByText(e), LabelForText(e), AncestorWalkText(e)>>

\* C10 as claimed: extractLabelText returns the first non-empty result of
\* the order (1) own aria-label, (2) deep text of the first node whose id is
\* the aria-labelledby value, (3) deep text of a label for the node's id,
\* (4) the walk over up to 5 ancestors (a label ancestor, else a label child
\* of the ancestor for the node's id), and a later source is used only when
\* every earlier one is absent or empty.
C10_FirstNonEmptySourceInOrder ==
    op = "extractLabelText" =>
        IF FirstNonEmpty(LabelSources(element)) = ""
        THEN result = Null
        ELSE result = FirstNonEmpty(LabelSources(element))

-----------------------------------------------------------------------------
(* Claims on the framework classification *)

\* the element and the ancestors the classification may look at, nearest first
Levels(ns, e) == <<e>> \o ParentChain(ns, e, FrameworkParentLevels)

AnyIndicator(el) ==
    hasSpectraIndicators(el) \/ hasJETIndicators(el) \/ hasRedwoodIndicators(el)

\* the framework one node alone stands for, Spectra > JET > Redwood
OwnFramework(el) ==
    IF hasSpectraIndicators(el) THEN "spectra"
    ELSE IF hasJETIndicators(el) THEN "jet"
    ELSE IF hasRedwoodIndicators(el) THEN "redwood"
    ELSE "html"

\* the classification in which the nearest level that carries an indicator decides
NearestLevelFramework(ns, e) ==
    LET lv == Levels(ns, e)
        hit == {i \in DOMAIN lv : AnyIndicator(ns[lv[i]])}
    IN  IF hit = {} THEN "html"
        ELSE OwnFramework(ns[lv[CHOOSE i \in hit : \A j \in hit : i <= j]])

\* C8 as claimed: the nearest level of node, parent, grandparent, ... that
\* carries any framework indicator decides the classification, and the
\* priority Spectra > JET > Redwood only breaks ties on that level.
C8_NearestLevelDecides ==
    op = "detectComponentFramework" => result = NearestLevelFramework(nodes, element)

\* C8 as amended: the priority Spectra > JET > Redwood is applied across all
\* examined levels.  The result is spectra when the node or one of its first
\* 5 ancestors carries a Spectra indicator, else jet when one of them carries
\* a JET indicator, else redwood when one of them carries a Redwood
\* indicator; so a node with a JET or Redwood indicator of its own is still
\* classified spectra when an ancestor within 5 levels carries a Spectra one.
C8_PriorityAcrossLevels ==
    op = "detectComponentFramework" =>
        LET lv == Levels(nodes, element)
            sp == \E i \in DOMAIN lv : hasSpectraIndicators(nodes[lv[i]])
            jet == \E i \in DOMAIN lv : hasJETIndicators(nodes[lv[i]])
            rw == \E i \in DOMAIN lv : hasRedwoodIndicators(nodes[lv[i]])
        IN  /\ (result = "spectra") <=> sp
            /\ (result = "jet") <=> (~sp /\ jet)
            /\ (result = "redwood") <=> (~sp /\ ~jet /\ rw)
            /\ (\E i \in DOMAIN lv :
                   /\ i > 1
                   /\ hasSpectraIndicators(nodes[lv[i]])
                   /\ ~hasSpectraIndicators(nodes[element]))
               => result = "spectra"

\* a node with a JET indicator and no Spectra indicator of its own, below an
\* ancestor with a Spectra indicator, has been classified spectra
C8_Witness ==
    /\ op = "detectComponentFramework"
    /\ hasJETIndicators(nodes[element])
    /\ ~hasSpectraIndicators(nodes[element])
    /\ \E a \in DOMAIN nodes :
         a # element /\ a \in {Levels(nodes, element)[i] : i \in DOMAIN Levels(nodes, element)}
         /\ hasSpectraIndicators(nodes[a])
    /\ result = "spectra"

\* C9: the classification is html if and only if none of the node and its
\* first 5 ancestors carries a Spectra, JET or Redwood indicator; indicators
\* on the 6th or a higher ancestor do not count, and a shorter chain is
\* walked to its root only.
C9_HtmlIffNoIndicatorWithinFiveLevels ==
    op = "detectComponentFramework" =>
        LET near == {a \in DOMAIN nodes : element - a \in 0..5}
        IN  (result = "html") <=> (\A a \in near : ~AnyIndicator(nodes[a]))

\* the only indicators of the chain sit on the 6th ancestor or above, and
\* the element has been classified html
C9_Witness ==
    /\ op = "detectComponentFramework"
    /\ result = "html"
    /\ \E a \in DOMAIN nodes : element - a >= 6 /\ AnyIndicator(nodes[a])

-----------------------------------------------------------------------------
(* Text extraction from a small tree *)

\* most nodes of a tree of texts
MaxTextNodes == 3

\* the texts node i may carry: none, blanks only, a word, words with blanks
\* around and between them
WordOf(i) == IF i = 2 THEN "Hello" ELSE IF i = 3 THEN "World" ELSE "w" \o ToString(i)

TextChoices(i) ==
    <<Undefined, "  ", WordOf(i), "  p" \o ToString(i) \o " \t q" \o ToString(i) \o " ">>

\* the tree: node 1 the root, every other node below an earlier one
TextTreeEls(tags, texts) ==
    [i \in DOMAIN tags |->
        El(tags[i], Undefined, Undefined, TextChoices(i)[texts[i]], Undefined, <<>>)]

InitText ==
    /\ \E n \in 1..MaxTextNodes :
         \E parents \in [1..n -> 0..(n - 1)] :
           \E tags \in [1..n -> {"div", "span"}] :
             \E texts \in [1..n -> 1..4] :
               /\ parents[1] = 0
               /\ \A i \in 2..n : parents[i] >= 1 /\ parents[i] < i
               /\ nodes = Arena(TextTreeEls(tags, texts), parents)
    /\ roots = <<1>>
    /\ element = 1
    /\ options = NoOptions
    /\ selectors = <<>>
    /\ previous = <<>>
    /\ NoBrowserSide
    /\ elements = <<>>
    /\ str = Undefined
    /\ op = "idle"
    /\ result = Undefined

ExtractDeepText ==
    /\ op = "idle"
    /\ op' = "extractDeepText"
    /\ result' = extractDeepText(nodes, element)
    /\ UNCHANGED inputs

AggregateSpanText ==
    /\ op = "idle"
    /\ op' = "aggregateSpanText"
    /\ result' = aggregateSpanText(nodes, roots, element)
    /\ UNCHANGED inputs

NextText == ExtractDeepText \/ AggregateSpanText

SpecText == InitText /\ [][NextText]_vars

-----------------------------------------------------------------------------
(* Claims on the text extraction *)

\* the text pieces of the subtree of e: the direct texts that are not blank,
\* trimmed and with inner runs of blanks collapsed, in document order
TextPieces(e) ==
    LET order == DocOrder(nodes, <<e>>)
        withText == SelectSeq(order, LAMBDA k : /\ Truthy(nodes[k].text)
                                                /\ Trim(nodes[k].text) # "")
    IN  [i \in DOMAIN withText |-> CollapseWs(Trim(nodes[withText[i]].text))]

\* each piece once, in document order, joined by single spaces
PiecesOnce(e) == Join(TextPieces(e), " ")

\* C11 as claimed: in aggregateSpanText every node's direct text contributes
\* exactly once, text inside a span included: the result is the text pieces
\* of the subtree, each once, in document order, joined by single spaces.
C11_EachTextOnce ==
    op = "aggregateSpanText" => result = PiecesOnce(element)

\* C12: extractDeepText of a node is the non-blank trimmed direct texts of
\* the node and all its descendants in depth-first document order, joined by
\* one space, with no leading, trailing or repeated blanks; children Hello
\* and World give "Hello World" and a subtree without text gives "".
C12_DeepTextInDocumentOrder ==
    op = "extractDeepText" =>
        /\ result = PiecesOnce(element)
        /\ TextPieces(element) = <<>> => result = ""
        /\ ~\E i \in 1..Len(result) :
               /\ CharAt(result, i) \in WhiteSpace
               /\ i = 1 \/ i = Len(result) \/ CharAt(result, i + 1) \in WhiteSpace

\* a node without text of its own above the children Hello and World gave
\* "Hello World"
C12_Witness ==
    /\ op = "extractDeepText"
    /\ Len(nodes) = 3
    /\ ~Truthy(nodes[1].text)
    /\ nodes[1].children = <<2, 3>>
    /\ nodes[2].text = "Hello" /\ nodes[3].text = "World"
    /\ result = "Hello World"

-----------------------------------------------------------------------------
(* Placeholder resolution for an element below a chain of wrappers *)

\* longest chain of nodes, the element included
MaxPlaceholderChain == 5

\* the placeholder attribute of the node at the given level above the
\* element (0: the element itself): none, empty, blank, or a text
PlaceholderChoices(level) ==
    <<<<>>,
      <<<<"placeholder", "">>>>,
      <<<<"placeholder", "  ">>>>,
      <<<<"placeholder", "hint " \o ToString(level)>>>>>>

\* the aria placeholder of the element itself, under either spelling
AriaPlaceholders ==
    {<<>>,
     <<<<"aria-placeholder", "aria hint">>>>,
     <<<<"ariaPlaceholder", "aria hint">>>>,
     <<<<"aria-placeholder", " ">>>>}

\* node 1 is the root and node n the element, each node the only child of
\* the one before it
InitPlaceholder ==
    /\ \E n \in 1..MaxPlaceholderChain :
         \E holders \in [1..n -> 1..4] :
           \E aria \in AriaPlaceholders :
             /\ nodes = Arena([i \in 1..n |->
                                  El(IF i = n THEN "input" ELSE "div",
                                     Undefined, Undefined, Undefined, Undefined,
                                     PlaceholderChoices(n - i)[holders[i]]
                                     \o (IF i = n THEN aria ELSE <<>>))],
                              [i \in 1..n |-> i - 1])
             /\ element = n
    /\ roots = <<1>>
    /\ options = NoOptions
    /\ selectors = <<>>
    /\ previous = <<>>
    /\ NoBrowserSide
    /\ elements = <<>>
    /\ str = Undefined
    /\ op = "idle"
    /\ result = Undefined

ExtractPlaceholderText ==
    /\ op = "idle"
    /\ op' = "extractPlaceholderText"
    /\ result' = extractPlaceholderText(nodes, roots, element)
    /\ UNCHANGED inputs

NextPlaceholder == ExtractPlaceholderText

SpecPlaceholder == InitPlaceholder /\ [][NextPlaceholder]_vars

-----------------------------------------------------------------------------
(* Claims on the placeholder resolution *)

\* the value of attribute key of node k, "" when absent or blank
AttributeText(k, key) ==
    LET v == Get(nodes[k].attributes, key)
    IN  IF Truthy(v) THEN Trim(v) ELSE ""

\* the sources in the order of the claim: own placeholder, own
\* aria-placeholder, the placeholder of ancestors 1, 2, 3
PlaceholderSources(e) ==
    <<AttributeText(e, "placeholder"),
      FirstNonEmpty(<<AttributeText(e, "ariaPlaceholder"),
                      AttributeText(e, "aria-placeholder")>>)>>
    \o [k \in 1..(IF e - 1 < 3 THEN e - 1 ELSE 3) |-> AttributeText(e - k, "placeholder")]

\* C13: extractPlaceholderText returns the first non-empty value of the
\* order own placeholder, own aria-placeholder, placeholder of ancestors 1,
\* 2, 3 (nearest first); a placeholder only on the 4th or a higher ancestor
\* is never returned, and the result is null when no source has a value.
C13_PlaceholderOrder ==
    op = "extractPlaceholderText" =>
        IF FirstNonEmpty(PlaceholderSources(element)) = ""
        THEN result = Null
        ELSE result = FirstNonEmpty(PlaceholderSources(element))

\* the only placeholder text sits on the 4th ancestor and null was returned
C13_Witness ==
    /\ op = "extractPlaceholderText"
    /\ element = 5
    /\ AttributeText(1, "placeholder") # ""
    /\ \A k \in 2..5 : AttributeText(k, "placeholder") = ""
    /\ result = Null

-----------------------------------------------------------------------------
(* Further claims on the synthesized list *)

\* C14 as claimed: the list returned by generateLocators holds no selector
\* string twice, for any element.
C14_NoDuplicateSelector ==
    op = "generateLocators" =>
        \A i, j \in DOMAIN result.selectors :
            result.selectors[i] = result.selectors[j] => i = j

-----------------------------------------------------------------------------
(* The escaping helpers applied to one value *)

\* longest value built from the alphabet
MaxValueLength == 4

\* a letter, a blank and the two quote characters
ValueAlphabet == {"a", " ", "\"", "'"}

\* every string of at most n characters of the alphabet
RECURSIVE ValuesUpTo(_)
ValuesUpTo(n) ==
    IF n = 0 THEN {""}
    ELSE ValuesUpTo(n - 1) \cup {s \o c : s \in ValuesUpTo(n - 1), c \in ValueAlphabet}

QuotedValues == ValuesUpTo(MaxValueLength) \cup {"Say \"hi\" and 'bye'", "it's", "5\" pipe"}

InitEscape ==
    /\ str \in QuotedValues
    /\ nodes = <<>>
    /\ roots = <<>>
    /\ element = 0
    /\ options = NoOptions
    /\ selectors = <<>>
    /\ previous = <<>>
    /\ NoBrowserSide
    /\ elements = <<>>
    /\ op = "idle"
    /\ result = Undefined

EscapeXPathString ==
    /\ op = "idle"
    /\ op' = "escapeXPathString"
    /\ result' = escapeXPathString(str)
    /\ UNCHANGED inputs

EscapeSelector ==
    /\ op = "idle"
    /\ op' = "escapeSelector"
    /\ result' = escapeSelector(str)
    /\ UNCHANGED inputs

NextEscape == EscapeXPathString \/ EscapeSelector

SpecEscape == InitEscape /\ [][NextEscape]_vars

-----------------------------------------------------------------------------
(* Claims on the escaping *)

\* the text is the literal s wrapped in the quote character q
IsLiteral(text, q, s) == text = q \o s \o q

\* C15: the XPath escaping splits three ways on the quote characters of the
\* value: a double quote and no single quote gives the value in single
\* quotes; only single quotes, or no quote, gives it in double quotes; both
\* quote characters give a concat(...) expression, not one quoted literal.
C15_ThreeWayQuoting ==
    op = "escapeXPathString" =>
        LET double == Includes(str, "\"")
            single == Includes(str, "'")
        IN  /\ (double /\ ~single) => IsLiteral(result, "'", str)
            /\ ~double => IsLiteral(result, "\"", str)
            /\ (double /\ single) =>
                  /\ StartsWith(result, "concat(")
                  /\ CharAt(result, Len(result)) = ")"
                  /\ ~IsLiteral(result, "'", str)
                  /\ ~IsLiteral(result, "\"", str)

\* the value Say "hi" and 'bye' came out as a concat(...) expression
C15_Witness ==
    /\ op = "escapeXPathString"
    /\ str = "Say \"hi\" and 'bye'"
    /\ StartsWith(result, "concat(")

-----------------------------------------------------------------------------
(* Batch validation of several elements of one page *)

\* a pass that puts its result ahead of the earlier ones
batchIterationPrepend(ns, rts, els, opts, results) ==
    <<generateAndValidateLocators(ns, rts, els[Len(results) + 1], opts)>> \o results

\* locator-validation-helper.ts 109-112: one pass of the loop body for the
\* element the iterator stands on; every pass pushes one result, so the
\* iterator stands on entry Len(results) + 1
batchIteration(ns, rts, els, opts, results) ==
    Append(results, generateAndValidateLocators(ns, rts, els[Len(results) + 1], opts))

\* most elements of one batch
MaxBatch == 2

\* an input whose id the CSS syntax test refuses after the "#"
DollarInput == El("input", "$total", Undefined, Undefined, Undefined, <<>>)

\* the pages a batch is taken from: elements that validate, twins, a node
\* without any locator, and a node whose test-id selector finds another node
BatchPages ==
    <<<<SubmitButton, TextInput, TextInput, DollarInput>>,
      <<LoginInput, TestIdButton, CamelTestIdButton, BareDiv>>>>

\* part_000 197-202: the options main passes, and the defaults
BatchOptions ==
    {NoOptions,
     [minValidSelectors |-> 2, requireCSS |-> TRUE, requireXPath |-> TRUE,
      verbose |-> FALSE],
     [minValidSelectors |-> 1, requireXPath |-> FALSE, verbose |-> FALSE]}

RECURSIVE SeqsUpTo(_, _)
SeqsUpTo(S, n) ==
    IF n = 0 THEN {<<>>}
    ELSE SeqsUpTo(S, n - 1)
         \cup {Append(s, x) : s \in {t \in SeqsUpTo(S, n - 1) : Len(t) = n - 1}, x \in S}

InitBatch ==
    /\ \E p \in DOMAIN BatchPages : \E uids \in BOOLEAN : \E flat \in BOOLEAN :
         LET els == WithUids(BatchPages[p], uids)
         IN  /\ nodes = Arena(els, PageParents(Len(els), flat))
             /\ roots = TopLevel(PageParents(Len(els), flat))
             /\ elements \in SeqsUpTo(DOMAIN els, MaxBatch)
    /\ options \in BatchOptions
    /\ element = 0
    /\ selectors = <<>>
    /\ previous = <<>>
    /\ NoBrowserSide
    /\ str = Undefined
    /\ op = "idle"
    /\ result = Undefined

\* the call: results starts empty (line 106)
BatchValidateLocators ==
    /\ op = "idle"
    /\ op' = "batchValidateLocators:loop"
    /\ result' = <<>>
    /\ UNCHANGED inputs

\* one pass of the loop (108-111): the whole synthesis and validation of the
\* next element, awaited, and its result pushed
BatchElement ==
    /\ op = "batchValidateLocators:loop"
    /\ Len(result) < Len(elements)
    /\ result' = batchIteration(nodes, roots, elements, options, result)
    /\ UNCHANGED <<inputs, op>>

\* the iterator is exhausted: return results (113)
BatchReturn ==
    /\ op = "batchValidateLocators:loop"
    /\ Len(result) = Len(elements)
    /\ op' = "batchValidateLocators"
    /\ UNCHANGED <<inputs, result>>

NextBatch == BatchValidateLocators \/ BatchElement \/ BatchReturn

SpecBatch == InitBatch /\ [][NextBatch]_vars

-----------------------------------------------------------------------------
(* Claims on the batch *)

InBatch == op \in {"batchValidateLocators:loop", "batchValidateLocators"}

\* what one call on entry i of the batch alone returns
AloneResult(i) == generateAndValidateLocators(nodes, roots, elements[i], options)

\* the results so far belong, in order, to the first elements of the batch
ResultsFollowElements ==
    /\ Len(result) <= Len(elements)
    /\ \A i \in DOMAIN result :
         /\ result[i] = AloneResult(i)
         /\ result[i].success \in BOOLEAN
         /\ ~result[i].success => Len(result[i].recommendations) > 0

\* C16: batchValidateLocators works through the elements in order, one
\* whole synthesis and validation per pass: every pass adds exactly one
\* result behind the earlier ones, result i is what the workflow returns for
\* element i alone (whatever the earlier elements ended with), a failed
\* element shows as success = FALSE with recommendations, and the list the
\* batch returns has one result per element, the failed ones included.
C16_BatchInOrderPastFailures ==
    /\ [](InBatch =>
            /\ ResultsFollowElements
            /\ (op = "batchValidateLocators" => Len(result) = Len(elements)))
    /\ [][InBatch /\ result' # result =>
            /\ Len(result') = Len(result) + 1
            /\ SubSeq(result', 1, Len(result)) = result]_vars

\* a returned batch of two elements whose first failed and whose second succeeded
C16_Witness ==
    /\ op = "batchValidateLocators"
    /\ Len(elements) = 2
    /\ Len(result) = 2
    /\ elements[1] # elements[2]
    /\ ~result[1].success
    /\ result[2].success

-----------------------------------------------------------------------------
(* Calls of the pipeline one after the other on one snapshot *)

\* variant in which a call fills in the text of the nodes that have none
snapshotAfterDefaultingText(ns, operation) ==
    [i \in DOMAIN ns |-> [ns[i] EXCEPT !.text = IF @ = Undefined THEN "" ELSE @]]

\* the snapshot a call leaves behind: the modules read the nodes (property
\* reads, for-of over children, Object.entries of attributes) and build their
\* outputs in arrays of their own (selectors, textParts, elements, results);
\* none assigns to a field of a node or applies an in-place array method to
\* children or attributes
snapshotAfter(ns, operation) == ns

RECURSIVE batchLoop(_, _, _, _, _)
batchLoop(ns, rts, els, opts, results) ==
    IF Len(results) = Len(els) THEN results
    ELSE batchLoop(ns, rts, els, opts, batchIteration(ns, rts, els, opts, results))

\* the whole of batchValidateLocators
batchValidateLocators(ns, rts, els, opts) == batchLoop(ns, rts, els, opts, <<>>)

\* the pages the calls run on: the element, its twin or not, below and
\* behind a label or alone
InitPipeline ==
    /\ \E target \in TargetKinds : \E twin \in BOOLEAN : \E flat \in BOOLEAN :
         \E uids \in BOOLEAN : \E others \in {{}, {5}} :
           LET els == WithUids(PageEls(target, twin, others), uids)
           IN  /\ nodes = Arena(els, PageParents(Len(els), flat))
               /\ roots = TopLevel(PageParents(Len(els), flat))
               /\ element \in {Len(els)} \cup (IF twin THEN {Len(els) - 1} ELSE {})
    /\ options = NoOptions
    /\ selectors = <<>>
    /\ previous = <<>>
    /\ NoBrowserSide
    /\ elements = <<>>
    /\ str = Undefined
    /\ op = "idle"
    /\ result = Undefined

\* one call of an exported function by a caller that holds the snapshot
PipelineCall(operation, opts, sels, els, value) ==
    /\ op' = operation
    /\ options' = opts
    /\ selectors' = sels
    /\ elements' = els
    /\ result' = value
    /\ nodes' = snapshotAfter(nodes, operation)
    /\ UNCHANGED <<roots, element, str, previous, browserSide>>

PipelineOptions ==
    {NoOptions, [extractDeepText |-> FALSE],
     [extractDeepText |-> FALSE, aggregateSpanText |-> FALSE]}

CallDetectComponentFramework ==
    /\ op = "idle"
    /\ PipelineCall("detectComponentFramework", NoOptions, <<>>, <<>>,
                    detectComponentFramework(nodes, element))

CallExtractDeepText ==
    /\ op = "idle"
    /\ PipelineCall("extractDeepText", NoOptions, <<>>, <<>>, extractDeepText(nodes, element))

CallExtractLabelText ==
    /\ op = "idle"
    /\ PipelineCall("extractLabelText", NoOptions, <<>>, <<>>,
                    extractLabelText(nodes, roots, element))

CallExtractPlaceholderText ==
    /\ op = "idle"
    /\ PipelineCall("extractPlaceholderText", NoOptions, <<>>, <<>>,
                    extractPlaceholderText(nodes, roots, element))

CallAggregateSpanText ==
    /\ op = "idle"
    /\ PipelineCall("aggregateSpanText", NoOptions, <<>>, <<>>,
                    aggregateSpanText(nodes, roots, element))

CallGenerateLocators ==
    /\ op = "idle"
    /\ \E o \in PipelineOptions :
         PipelineCall("generateLocators", o, <<>>, <<>>,
                      generateLocators(nodes, roots, element, o))

\* the caller validates the locators it kept, or a list of its own
CallValidateLocators ==
    /\ op = "idle"
    /\ \E given \in {generateLocators(nodes, roots, element, NoOptions)}
                      \cup ({previous[i].result : i \in DOMAIN previous}) :
         \E list \in {given.selectors, <<"#login", ".note", "[name=\"user\"]", "// x">>} :
           PipelineCall("validateLocators", NoOptions, list, <<>>,
                        validateLocators(nodes, roots, element,
                                         [given EXCEPT !.selectors = list]))

CallGenerateAndValidateLocators ==
    /\ op = "idle"
    /\ \E o \in {NoOptions, [minValidSelectors |-> 1, requireXPath |-> FALSE]} :
         PipelineCall("generateAndValidateLocators", o, <<>>, <<>>,
                      generateAndValidateLocators(nodes, roots, element, o))

CallBatchValidateLocators ==
    /\ op = "idle"
    /\ \E els \in {<<element>>, <<1, element>>} :
         PipelineCall("batchValidateLocators", NoOptions, <<>>, els,
                      batchValidateLocators(nodes, roots, els, NoOptions))

\* the caller takes the result; of generateLocators it keeps the options it
\* passed and the locators it got
PipelineReturn ==
    /\ op # "idle"
    /\ op' = "idle"
    /\ previous' = IF op = "generateLocators"
                   THEN <<[options |-> options, result |-> result]>>
                   ELSE previous
    /\ options' = NoOptions
    /\ selectors' = <<>>
    /\ elements' = <<>>
    /\ result' = Undefined
    /\ UNCHANGED <<nodes, roots, element, str, browserSide>>

NextPipeline ==
    \/ CallDetectComponentFramework
    \/ CallExtractDeepText
    \/ CallExtractLabelText
    \/ CallExtractPlaceholderText
    \/ CallAggregateSpanText
    \/ CallGenerateLocators
    \/ CallValidateLocators
    \/ CallGenerateAndValidateLocators
    \/ CallBatchValidateLocators
    \/ PipelineReturn

SpecPipeline == InitPipeline /\ [][NextPipeline]_vars

-----------------------------------------------------------------------------
(* Claims on sequences of calls *)

SameNode(before, after) ==
    /\ after.tag = before.tag
    /\ after.id = before.id
    /\ after.class = before.class
    /\ after.text = before.text
    /\ after.uid = before.uid
    /\ after._uid = before._uid
    /\ after.attributes = before.attributes
    /\ after.parent = before.parent
    /\ after.children = before.children

-----------------------------------------------------------------------------
(* Identity of two nodes *)

\* a node with the fields isSameElement reads
IdentityEl(tag, uid, uid2, id, attrs) ==
    [El(tag, id, Undefined, Undefined, uid, attrs) EXCEPT !._uid = uid2]

TestIdAttributes ==
    {<<>>, <<<<"data-testid", "a">>>>, <<<<"dataTestid", "a">>>>, <<<<"data-testid", "b">>>>}

NameAttributes == {<<>>, <<<<"name", "user">>>>}

\* the matched node: every combination of the identity fields
MatchedEls ==
    {IdentityEl(tag, uid, uid2, id, testid \o name) :
        tag \in {"input", "button"}, uid \in {Undefined, "e1", "e2"},
        uid2 \in {Undefined, "u1", "u2"}, id \in {Undefined, "login", "other"},
        testid \in TestIdAttributes, name \in NameAttributes}

\* the target node: each identity field absent or with one value
TargetEls ==
    {IdentityEl("input", uid, uid2, id, testid \o name) :
        uid \in {Undefined, "e1"}, uid2 \in {Undefined, "u1"},
        id \in {Undefined, "login"},
        testid \in {<<>>, <<<<"data-testid", "a">>>>, <<<<"dataTestid", "a">>>>},
        name \in NameAttributes}

\* node 1 is the node a selector matched, node 2 the target
InitIdentity ==
    /\ \E matched \in MatchedEls : \E target \in TargetEls :
         nodes = Arena(<<matched, target>>, <<0, 0>>)
    /\ roots = <<1, 2>>
    /\ element = 2
    /\ options = NoOptions
    /\ selectors = <<>>
    /\ previous = <<>>
    /\ NoBrowserSide
    /\ elements = <<>>
    /\ str = Undefined
    /\ op = "idle"
    /\ result = Undefined

\* validateSelector's comparison of the one match with the target (line 136)
IsSameElement ==
    /\ op = "idle"
    /\ op' = "isSameElement"
    /\ result' = isSameElement(nodes[1], nodes[element])
    /\ UNCHANGED inputs

NextIdentity == IsSameElement

SpecIdentity == InitIdentity /\ [][NextIdentity]_vars

-----------------------------------------------------------------------------
(* Claims on the identity of two nodes *)

TestIdOf(e) == Or(Get(e.attributes, "dataTestid"), Get(e.attributes, "data-testid"))

NameOf(e) == Get(e.attributes, "name")

\* a rule: whether it applies to the two nodes, and what it says then
UidRule(a, b) == [applies |-> Truthy(a.uid) /\ Truthy(b.uid), equal |-> a.uid = b.uid]

SecondUidRule(a, b) == [applies |-> Truthy(a._uid) /\ Truthy(b._uid), equal |-> a._uid = b._uid]

IdRule(a, b) == [applies |-> Truthy(a.id) /\ Truthy(b.id), equal |-> a.id = b.id]

TestIdRule(a, b) ==
    [applies |-> Truthy(TestIdOf(a)) /\ Truthy(TestIdOf(b)), equal |-> TestIdOf(a) = TestIdOf(b)]

NameRule(a, b) ==
    [applies |-> TRUE,
     equal |-> a.tag = b.tag /\ Truthy(NameOf(a)) /\ Truthy(NameOf(b)) /\ NameOf(a) = NameOf(b)]

\* the verdict of the first rule of the list that applies
FirstApplicable(rules) ==
    IF \E i \in DOMAIN rules : rules[i].applies
    THEN rules[CHOOSE i \in DOMAIN rules :
                 rules[i].applies /\ \A j \in 1..(i - 1) : ~rules[j].applies].equal
    ELSE FALSE

-----------------------------------------------------------------------------
(* Claims on the spelling of attribute keys *)

\* the nodes of the page that store value under the hyphenated key or
\* under its camelCase spelling
StoredUnder(hyphenated, camelCase, value) ==
    {i \in DOMAIN nodes :
        \/ Get(nodes[i].attributes, hyphenated) = value
        \/ Get(nodes[i].attributes, camelCase) = value}

ReportedResults ==
    IF op = "validateLocators" THEN result.results
    ELSE IF op = "generateAndValidateLocators" THEN result.validationReport.results
    ELSE <<>>

\* C20: the validation of [data-testid="login-btn"] finds an element exactly
\* when some node of the page stores login-btn under data-testid or under
\* dataTestid.
C20_CamelCaseKeyMatches ==
    \A i \in DOMAIN ReportedResults :
      ReportedResults[i].selector = "[data-testid=\"login-btn\"]"
        => (ReportedResults[i].elementFound
              <=> StoredUnder("data-testid", "dataTestid", "login-btn") # {})

-----------------------------------------------------------------------------
(* Claims on combined selectors *)

\* the nodes of the page with this tag and this value of the name attribute
TaggedAndNamed(tag, value) ==
    {i \in DOMAIN nodes : nodes[i].tag = tag /\ Get(nodes[i].attributes, "name") = value}

CombinedNameSelector(tag) == tag \o "[name=\"user\"]"

\* C21: the validation of tag[name="user"] (tag select or input) finds an
\* element exactly when some node of the page has that tag and stores user
\* under name; a node of another tag with name user is no match.
C21_CombinedSelectorNeedsTag ==
    \A i \in DOMAIN ReportedResults : \A tag \in {"select", "input"} :
      ReportedResults[i].selector = CombinedNameSelector(tag)
        => (ReportedResults[i].elementFound <=> TaggedAndNamed(tag, "user") # {})

-----------------------------------------------------------------------------
(* Claims on the XPath candidates of the synthesizer *)

HasQuote(v) == v # Undefined /\ (Includes(v, "\"") \/ Includes(v, "'"))

\* no value of the node contains a quote character
QuoteFree(e) ==
    /\ ~HasQuote(e.id)
    /\ \A k \in DOMAIN e.attributes : ~HasQuote(e.attributes[k][2])

\* an XPath on an attribute (or the id) that the node e itself carries
IsAttributeXPath(selector, e) ==
    /\ StartsWith(selector, "//")
    /\ \/ Truthy(e.id) /\ Includes(selector, "[@id=")
       \/ \E k \in DOMAIN e.attributes :
            Includes(selector, "[@" \o e.attributes[k][1] \o "=")

\* C22: when the target's values are quote-free and no other node of the
\* page has the target's tag, every XPath the workflow generated on an
\* attribute the target carries finds an element and is not reported as
\* matching no element.
C22_AttributeXPathValidates ==
    op = "generateAndValidateLocators"
      => \A i \in DOMAIN result.validationReport.results :
           LET r == result.validationReport.results[i]
           IN  (/\ IsAttributeXPath(r.selector, nodes[element])
                /\ QuoteFree(nodes[element])
                /\ \A k \in DOMAIN nodes : k # element => nodes[k].tag # nodes[element].tag)
                 => r.elementFound /\ r.reason # "No elements found matching selector"

-----------------------------------------------------------------------------
(* Claims on the node a valid selector matched *)

\* C23: a selector reported valid matches exactly one node of the snapshot,
\* and that node is the target itself (the same node, not one that looks
\* like it).
C23_ValidMeansTargetItself ==
    \A i \in DOMAIN ReportedResults :
      ReportedResults[i].isValid
        => findElementsBySelector(ReportedResults[i].selector, nodes, roots) = <<element>>

-----------------------------------------------------------------------------
(* Claims on the order of the tiers *)

\* what each of the eleven tiers contributes for the element, by tier number
TierCandidates(ns, rts, e, opts) ==
    LET prioritize == Opt(opts, "prioritizeComponentFramework", TRUE)
        deep == Opt(opts, "extractDeepText", TRUE)
        spans == Opt(opts, "aggregateSpanText", TRUE)
        framework == detectComponentFramework(ns, e)
        label == IF deep THEN extractLabelText(ns, rts, e) ELSE Null
    IN  <<addTestIdSelectors(ns[e]),
          IF prioritize THEN addComponentSpecificSelectors(ns[e], framework) ELSE <<>>,
          addStableIdSelectors(ns[e]),
          addNameSelectors(ns[e]),
          IF prioritize THEN addComponentClassSelectors(ns[e], framework) ELSE <<>>,
          addAriaSelectors(ns[e], label),
          addTypeSelectors(ns[e]),
          addPlaceholderSelectors(ns[e],
              IF deep THEN extractPlaceholderText(ns, rts, e) ELSE Null),
          IF deep \/ spans
          THEN addTextBasedXPathSelectors(ns[e],
                   IF deep THEN extractDeepText(ns, e) ELSE Null,
                   IF spans THEN aggregateSpanText(ns, rts, e) ELSE Null, label)
          ELSE <<>>,
          addStableClassSelectors(ns[e]),
          addXPathFallbacks(ns[e], framework)>>

RECURSIVE Flatten(_)
Flatten(lists) == IF lists = <<>> THEN <<>> ELSE Head(lists) \o Flatten(Tail(lists))

Min(a, b) == IF a < b THEN a ELSE b

\* C24: the returned list is the first min(5, n) of the n candidates of
\* tiers 1 to 11 taken in tier order, and for an element that carries
\* data-testid its first entry is [data-testid="value"].
C24_FirstFiveInTierOrder ==
    op = "generateLocators" =>
      LET all == Flatten(TierCandidates(nodes, roots, element, options))
          testId == Get(nodes[element].attributes, "data-testid")
      IN  /\ result.selectors = SubSeq(all, 1, Min(5, Len(all)))
          /\ Truthy(testId) => result.selectors[1] = "[data-testid=\"" \o testId \o "\"]"

\* an element with a test id and a stable id whose lower tiers were cut off
C24_Witness ==
    /\ op = "generateLocators"
    /\ Truthy(Get(nodes[element].attributes, "data-testid"))
    /\ addStableIdSelectors(nodes[element]) # <<>>
    /\ Len(Flatten(TierCandidates(nodes, roots, element, options))) > 5
    /\ result.selectors[1] = "[data-testid=\"login-btn\"]"
    /\ addXPathFallbacks(nodes[element], result.componentFramework) # <<>>

-----------------------------------------------------------------------------
(* The stability test of one class token *)

\* longest run of one character in a token
MaxRun == 21

RECURSIVE Repeat(_, _)
Repeat(c, n) == IF n = 0 THEN "" ELSE c \o Repeat(c, n - 1)

TokenPrefixes == SemanticPrefixes \cup {"", "nav-", "BTN-", "7", "_"}

\* class tokens: a prefix, a run of a letter or a digit, and a tail
ClassTokens ==
    {p \o Repeat(c, n) \o t :
        p \in TokenPrefixes, c \in {"a", "Z", "7"}, n \in 0..MaxRun,
        t \in {"", "-b", "_b"}} \ {""}

InitClass ==
    /\ str \in ClassTokens
    /\ nodes = <<>>
    /\ roots = <<>>
    /\ element = 0
    /\ options = NoOptions
    /\ selectors = <<>>
    /\ previous = <<>>
    /\ NoBrowserSide
    /\ elements = <<>>
    /\ op = "idle"
    /\ result = Undefined

\* the filter of addStableClassSelectors on one token (line 352)
IsStableClass ==
    /\ op = "idle"
    /\ op' = "isStableClass"
    /\ result' = isStableClass(str)
    /\ UNCHANGED inputs

NextClass == IsStableClass

SpecClass == InitClass /\ [][NextClass]_vars

-----------------------------------------------------------------------------
(* Claims on the stability test of a class token *)

HasRecognizedPrefix(token) == \E p \in SemanticPrefixes : StartsWith(token, p)

\* shorter than 20 characters, only letters, digits and hyphens, a letter first
ShortSemantic(token) ==
    /\ Len(token) < 20
    /\ CharAt(token, 1) \in Letter
    /\ AllIn(token, 1, Len(token), Letter \cup Digit \cup {"-"})

\* C25: a token is accepted exactly when it starts with a recognized prefix
\* or is a short semantic token; ten or more alphanumeric characters do not
\* change that.
C25_AcceptedIffPrefixOrShort ==
    op = "isStableClass" => (result <=> (HasRecognizedPrefix(str) \/ ShortSemantic(str)))

-----------------------------------------------------------------------------
(* Locator synthesis for an element with a text of a given length *)

\* longest text of the element
MaxTextLength == 101

\* a text of n characters without blanks and quotes: 1234567890123...
RECURSIVE TextOfLength(_)
TextOfLength(n) == IF n = 0 THEN "" ELSE TextOfLength(n - 1) \o ToString(n % 10)

\* the element, a div or a span with the text (bare or with blanks around
\* it), alone or with one span below it
InitTextTier ==
    /\ \E n \in 0..MaxTextLength : \E tag \in {"div", "span"} :
         \E padded \in BOOLEAN : \E child \in BOOLEAN :
           LET text == IF padded THEN "  " \o TextOfLength(n) \o " " ELSE TextOfLength(n)
               el == El(tag, Undefined, Undefined, text, "e1", <<>>)
               below == El("span", Undefined, Undefined, "ab", "e2", <<>>)
           IN  nodes = IF child THEN Arena(<<el, below>>, <<0, 1>>)
                       ELSE Arena(<<el>>, <<0>>)
    /\ roots = <<1>>
    /\ element = 1
    /\ options = NoOptions
    /\ selectors = <<>>
    /\ previous = <<>>
    /\ NoBrowserSide
    /\ elements = <<>>
    /\ str = Undefined
    /\ op = "idle"
    /\ result = Undefined

SpecTextTier == InitTextTier /\ [][NextLocators]_vars

-----------------------------------------------------------------------------
(* Claims on the text tier *)

\* the text the tier works on: the aggregated span text when there is one,
\* the deep text otherwise, trimmed
TierText ==
    LET aggregated == IF Opt(options, "aggregateSpanText", TRUE)
                      THEN aggregateSpanText(nodes, roots, element) ELSE Null
        deep == IF Opt(options, "extractDeepText", TRUE)
                THEN extractDeepText(nodes, element) ELSE Null
    IN  IF Truthy(aggregated) /\ Trim(aggregated) # "" THEN Trim(aggregated)
        ELSE IF Truthy(deep) THEN Trim(deep) ELSE ""

TierRuns == Opt(options, "extractDeepText", TRUE) \/ Opt(options, "aggregateSpanText", TRUE)

NormalizeCandidates ==
    {i \in DOMAIN result.selectors :
        StartsWith(result.selectors[i], "//" \o nodes[element].tag \o "[normalize-space(text())=")}

ContainsCandidates ==
    {i \in DOMAIN result.selectors :
        StartsWith(result.selectors[i],
                   "//" \o nodes[element].tag \o "[contains(normalize-space(text()), ")}

\* the selector carries exactly this text between quote characters
Carries(selector, text) ==
    /\ Includes(selector, "\"" \o text \o "\"")
    /\ \A c \in Digit \cup {" ", "a", "b"} : ~Includes(selector, text \o c)

\* C26: when the text tier runs, the normalize-space(text()) candidate is
\* there exactly when the tier's text has 1 to 99 characters, the contains()
\* candidate exactly when it has 11 to 99, and that one carries the first 20
\* characters of the text and no more.
C26_TextTierLengths ==
    (op = "generateLocators" /\ TierRuns) =>
      /\ NormalizeCandidates # {} <=> (1 <= Len(TierText) /\ Len(TierText) <= 99)
      /\ ContainsCandidates # {} <=> (11 <= Len(TierText) /\ Len(TierText) <= 99)
      /\ \A i \in ContainsCandidates :
           Carries(result.selectors[i], Sub(TierText, 1, Min(20, Len(TierText))))

\* a text of 11 characters: both candidates, the partial one with all of it
C26_Witness ==
    /\ op = "generateLocators"
    /\ TierRuns
    /\ Len(TierText) = 11
    /\ NormalizeCandidates # {}
    /\ ContainsCandidates # {}

-----------------------------------------------------------------------------
(* Claims on a node without any label source *)

\* no aria-label, no aria-labelledby, no id, and no label among the 5
\* nearest ancestors
NoLabelSource(e) ==
    /\ ~Truthy(Get(nodes[e].attributes, "ariaLabel"))
    /\ ~Truthy(Get(nodes[e].attributes, "aria-label"))
    /\ ~Truthy(Get(nodes[e].attributes, "ariaLabelledby"))
    /\ ~Truthy(Get(nodes[e].attributes, "aria-labelledby"))
    /\ ~Truthy(nodes[e].id)
    /\ LET chain == ParentChain(nodes, e, 5)
       IN  \A i \in DOMAIN chain : nodes[chain[i]].tag # "label"

\* C27: for a node without any label source extractLabelText returns null,
\* whatever labels the snapshot holds.
C27_NoSourceNoLabel ==
    (op = "extractLabelText" /\ NoLabelSource(element)) => result = Null

-----------------------------------------------------------------------------
(* BasePage: finding an element with a list of fallback selectors *)

\* most selectors of one fallback list
MaxFallbacks == 2

\* variant that also refuses an XPath with :contains(
isContainsSelectorAnyForm(selector) == Includes(selector, ":contains(")

\* BasePage.ts 21: a CSS-form selector with :contains(
isContainsSelector(selector) ==
    ~StartsWith(selector, "//") /\ Includes(selector, ":contains(")

\* what the driver's wait rejects with: the timeout message the call passed
\* (27-31, 37-41) or an error of the driver's own
rejectionMessage(selector, failure) ==
    IF failure = "timeout"
    THEN (IF StartsWith(selector, "//") THEN "XPath selector \"" ELSE "CSS selector \"")
         \o selector \o "\" not found"
    ELSE IF failure = "invalid"
    THEN "invalid selector: An invalid or illegal selector was specified"
    ELSE "stale element reference: element is not attached to the page document"

\* 43-53: the errors entry for a selector whose wait was rejected
errorEntry(selector, message) ==
    IF ~StartsWith(selector, "//") /\ Includes(message, "invalid selector")
    THEN selector \o ": Invalid CSS selector"
    ELSE selector \o ": " \o message

\* 18-25: from selector i on, the selectors skipped without a wait; i is
\* left on the first selector that needs a wait, or behind the list
RECURSIVE skipContains(_, _, _)
skipContains(sels, i, errors) ==
    IF i > Len(sels) THEN [i |-> i, errors |-> errors]
    ELSE IF isContainsSelector(sels[i])
    THEN skipContains(sels, i + 1,
             Append(errors, sels[i] \o ": Invalid CSS selector (contains is not supported)"))
    ELSE [i |-> i, errors |-> errors]

\* 59: the error thrown after the loop
allSelectorsFailed(errors) == "All selectors failed:\n" \o Join(errors, "\n")

\* variant that retries after any error
retriesAfterAnyError(message, attempt, maxRetries) == attempt < maxRetries - 1

\* 191-199: the wrapper's catch: another attempt or the error again
retriesAfter(message, attempt, maxRetries) ==
    Includes(message, "stale") /\ attempt < maxRetries - 1

\* the element a selector located
ElementOf(selector) == [locatedBy |-> selector]

NoFrame == <<>>

\* the wrapper caught an error (191): it sleeps before the next attempt or
\* throws the error again
Caught(fr, message) ==
    IF retriesAfter(message, fr.attempt, fr.maxRetries)
    THEN /\ op' = "findElementWithFallbackSafe:sleep"
         /\ frame' = [fr EXCEPT !.lastError = message]
         /\ UNCHANGED result
    ELSE /\ op' = "findElementWithFallbackSafe"
         /\ frame' = [fr EXCEPT !.lastError = message]
         /\ result' = [thrown |-> message]

\* findElementWithFallback runs from selector `from` to its next wait, or to
\* its throw when no selector is left; lg is the log so far
RunToWait(fr, from, errors, lg) ==
    LET next == skipContains(selectors, from, errors)
    IN  IF next.i <= Len(selectors)
        THEN /\ op' = (IF fr.safe THEN "findElementWithFallbackSafe:wait"
                       ELSE "findElementWithFallback:wait")
             /\ frame' = [fr EXCEPT !.i = next.i, !.errors = next.errors]
             /\ log' = Append(lg, [selector |-> selectors[next.i], outcome |-> "pending"])
             /\ UNCHANGED result
        ELSE /\ log' = lg
             /\ IF fr.safe
                THEN Caught([fr EXCEPT !.i = next.i, !.errors = next.errors],
                            allSelectorsFailed(next.errors))
                ELSE /\ op' = "findElementWithFallback"
                     /\ frame' = [fr EXCEPT !.i = next.i, !.errors = next.errors]
                     /\ result' = [thrown |-> allSelectorsFailed(next.errors)]

FallbackSelectors == {"#go", "//a", "a:contains(\"Go\")", "//p[:contains(x)]"}

\* the page-object side only: a list of selectors, nothing called yet
InitFind ==
    /\ selectors \in SeqsUpTo(FallbackSelectors, MaxFallbacks)
    /\ nodes = <<>>
    /\ roots = <<>>
    /\ element = 0
    /\ options = NoOptions
    /\ str = Undefined
    /\ elements = <<>>
    /\ previous = <<>>
    /\ frame = NoFrame
    /\ log = <<>>
    /\ driver = 0
    /\ browsers = {}
    /\ tasks = <<>>
    /\ op = "idle"
    /\ result = Undefined

\* the locals at the first call of findElementWithFallback; maxRetries is
\* line 182's, and 1 for a direct call
StartFrame(safe, retryOnStale) ==
    [safe |-> safe, retryOnStale |-> retryOnStale,
     maxRetries |-> IF retryOnStale THEN 3 ELSE 1,
     attempt |-> 0, started |-> 1, i |-> 0, errors |-> <<>>, lastError |-> ""]

\* the call of findElementWithFallback, up to its first wait
FindElementWithFallback ==
    /\ op = "idle"
    /\ RunToWait(StartFrame(FALSE, FALSE), 1, <<>>, <<>>)
    /\ UNCHANGED <<nodes, roots, element, options, selectors, str, elements, previous,
                   driver, browsers, tasks>>

Waiting == op \in {"findElementWithFallback:wait", "findElementWithFallbackSafe:wait"}

\* the pending wait resolves with an element: findElementWithFallback
\* returns it (32, 42); the wrapper goes on to element.getId() (189)
WaitLocated ==
    /\ Waiting
    /\ log' = [log EXCEPT ![Len(log)].outcome = "located"]
    /\ IF frame.safe
       THEN /\ op' = "findElementWithFallbackSafe:getId"
            /\ UNCHANGED result
       ELSE /\ op' = "findElementWithFallback"
            /\ result' = [returned |-> ElementOf(selectors[frame.i])]
    /\ UNCHANGED <<nodes, roots, element, options, selectors, str, elements, previous,
                   frame, driver, browsers, tasks>>

\* the pending wait is rejected: one errors entry, then on to the next wait
\* or to the throw
WaitRejected ==
    /\ Waiting
    /\ \E failure \in {"timeout", "invalid", "stale"} :
         RunToWait(frame, frame.i + 1,
                   Append(frame.errors,
                          errorEntry(selectors[frame.i],
                                     rejectionMessage(selectors[frame.i], failure))),
                   [log EXCEPT ![Len(log)].outcome = failure])
    /\ UNCHANGED <<nodes, roots, element, options, selectors, str, elements, previous,
                   driver, browsers, tasks>>

NextFind == FindElementWithFallback \/ WaitLocated \/ WaitRejected

SpecFind == InitFind /\ [][NextFind]_vars

\* the call of findElementWithFallbackSafe (177-187), up to the first wait
\* of its first attempt
FindElementWithFallbackSafe ==
    /\ op = "idle"
    /\ \E retryOnStale \in BOOLEAN :
         RunToWait(StartFrame(TRUE, retryOnStale), 1, <<>>, <<>>)
    /\ UNCHANGED <<nodes, roots, element, options, selectors, str, elements, previous,
                   driver, browsers, tasks>>

\* element.getId() resolves: the wrapper returns the element (190)
GetIdResolved ==
    /\ op = "findElementWithFallbackSafe:getId"
    /\ op' = "findElementWithFallbackSafe"
    /\ result' = [returned |-> ElementOf(selectors[frame.i])]
    /\ UNCHANGED <<nodes, roots, element, options, selectors, str, elements, previous,
                   frame, log, driver, browsers, tasks>>

\* element.getId() is rejected: the element went stale, or the session is gone
GetIdRejected ==
    /\ op = "findElementWithFallbackSafe:getId"
    /\ \E message \in {"stale element reference: element is not attached to the page document",
                       "no such window: target window already closed"} :
         Caught(frame, message)
    /\ UNCHANGED <<nodes, roots, element, options, selectors, str, elements, previous,
                   log, driver, browsers, tasks>>

\* the 500 ms are over (196-197): the next attempt calls
\* findElementWithFallback again, up to its first wait
SleepDone ==
    /\ op = "findElementWithFallbackSafe:sleep"
    /\ RunToWait([frame EXCEPT !.attempt = @ + 1, !.started = @ + 1, !.i = 0,
                               !.errors = <<>>],
                 1, <<>>, <<>>)
    /\ UNCHANGED <<nodes, roots, element, options, selectors, str, elements, previous,
                   driver, browsers, tasks>>

NextSafe ==
    \/ FindElementWithFallbackSafe
    \/ WaitLocated
    \/ WaitRejected
    \/ GetIdResolved
    \/ GetIdRejected
    \/ SleepDone

SpecSafe == InitFind /\ [][NextSafe]_vars

\* every wait, getId and sleep ends: the waits carry a timeout, the sleep
\* is a timer
SpecSafeFair == SpecSafe /\ WF_vars(NextSafe)

\* a selector findElementWithFallback hands to the driver
NeedsDriver(selector) ==
    StartsWith(selector, "//") \/ ~Includes(selector, ":contains(")

LoggedSelectors == [k \in 1..Len(log) |-> log[k].selector]

FindReturned == op = "findElementWithFallback" /\ "returned" \in DOMAIN result

FindThrown == op = "findElementWithFallback" /\ "thrown" \in DOMAIN result

\* the waits asked so far are the first driver-bound selectors of the list,
\* in list order, and every one but the last was rejected
TriedInListOrder ==
    LET bound == SelectSeq(selectors, NeedsDriver)
    IN  /\ Len(log) <= Len(bound)
        /\ LoggedSelectors = SubSeq(bound, 1, Len(log))
        /\ \A k \in 1..Len(log) - 1 : log[k].outcome \in {"timeout", "invalid", "stale"}

\* C28: findElementWithFallback asks the driver for the selectors in list
\* order, one at a time, never for a CSS-form selector with :contains(; it
\* returns the element of the first selector the driver locates and asks
\* for no later one; it throws 'All selectors failed' only when every
\* driver-bound selector was asked for and rejected, with one error entry
\* per selector of the list, in list order.
C28_FallbackInListOrder ==
    /\ [](op \in {"findElementWithFallback:wait", "findElementWithFallback"} =>
            /\ TriedInListOrder
            /\ op = "findElementWithFallback:wait" => log[Len(log)].outcome = "pending"
            /\ FindReturned =>
                 /\ log # <<>>
                 /\ log[Len(log)].outcome = "located"
                 /\ result.returned = ElementOf(log[Len(log)].selector)
            /\ FindThrown =>
                 /\ Len(log) = Len(SelectSeq(selectors, NeedsDriver))
                 /\ \A k \in 1..Len(log) : log[k].outcome \in {"timeout", "invalid", "stale"}
                 /\ Len(frame.errors) = Len(selectors)
                 /\ \A k \in 1..Len(selectors) :
                      StartsWith(frame.errors[k], selectors[k] \o ": ")
                 /\ result.thrown = "All selectors failed:\n" \o Join(frame.errors, "\n"))
    /\ [][/\ Len(log') <= Len(log) + 1
          /\ op = "findElementWithFallback" => UNCHANGED log
          /\ op = "findElementWithFallback:wait" =>
               SubSeq(LoggedSelectors', 1, Len(log)) = LoggedSelectors]_vars

\* a list of one skipped and one driver-bound selector, all failed
C28_Witness ==
    /\ FindThrown
    /\ Len(selectors) = 2
    /\ Len(log) = 1
    /\ ~NeedsDriver(selectors[1])

SafeRunning ==
    op \in {"findElementWithFallbackSafe:wait", "findElementWithFallbackSafe:getId",
            "findElementWithFallbackSafe:sleep"}

SafeDone == op = "findElementWithFallbackSafe"

CallLimit == IF frame.retryOnStale THEN 3 ELSE 1

\* C30: findElementWithFallbackSafe ends, with an element or an error; it
\* calls findElementWithFallback at most 3 times with retryOnStale and once
\* without; a further call comes only out of the sleep that follows an error
\* with 'stale' in its message while calls remain; after any other error it
\* is not running any more, and the error it throws is the one it caught.
C30_SafeTerminates ==
    /\ <>SafeDone
    /\ [](SafeRunning \/ SafeDone =>
            /\ frame.started >= 1
            /\ frame.started <= CallLimit
            /\ ~frame.retryOnStale => frame.started = 1)
    /\ [](SafeRunning =>
            /\ frame.lastError = "" \/ Includes(frame.lastError, "stale")
            /\ op = "findElementWithFallbackSafe:sleep" =>
                 /\ Includes(frame.lastError, "stale")
                 /\ frame.started < CallLimit)
    /\ [](SafeDone =>
            /\ DOMAIN result \in {{"returned"}, {"thrown"}}
            /\ "thrown" \in DOMAIN result =>
                 /\ result.thrown = frame.lastError
                 /\ Includes(result.thrown, "stale") => frame.started = CallLimit)
    /\ [][SafeRunning =>
            /\ frame'.started \in {frame.started, frame.started + 1}
            /\ frame'.started # frame.started =>
                 op = "findElementWithFallbackSafe:sleep"]_vars

\* the third call found an element that was not stale
C30_Witness ==
    /\ SafeDone
    /\ "returned" \in DOMAIN result
    /\ frame.started = 3

-----------------------------------------------------------------------------
(* utils/driver: the module's one WebDriver and the calls that share it *)

\* callers that may be inside the driver module at once
MaxCallers == 2

\* browsers that can be alive or starting at once
MaxBrowsers == 3

Callers == 1..MaxCallers

BrowserIds == 1..MaxBrowsers

\* a caller outside the module
IdleTask == [fn |-> "none", pc |-> "idle", d |-> 0, outcome |-> "none"]

\* the browsers some call is building (driver.ts 17, before the await ends)
Building == {tasks[c].d : c \in {k \in Callers : tasks[k].pc = "build"}}

\* the identities a new browser may take: not alive, not starting, not held
FreshIds ==
    {b \in BrowserIds : /\ b \notin browsers
                        /\ b # driver
                        /\ \A c \in Callers : tasks[c].d # b}

Outside(c) == tasks[c].pc \in {"idle", "done"}

InitDriver ==
    /\ tasks = [c \in Callers |-> IdleTask]
    /\ driver = 0
    /\ browsers = {}
    /\ frame = <<>>
    /\ log = <<>>
    /\ nodes = <<>>
    /\ roots = <<>>
    /\ element = 0
    /\ options = NoOptions
    /\ selectors = <<>>
    /\ str = Undefined
    /\ elements = <<>>
    /\ previous = <<>>
    /\ op = "idle"
    /\ result = Undefined

\* 7-9 and 26-29: with a driver the call returns it; 11-20: without one it
\* starts a browser and suspends at the await of build()
enterInitialize(c, fn, then) ==
    IF driver # 0
    THEN tasks' = [tasks EXCEPT ![c] =
                     IF then = "get"
                     THEN [fn |-> fn, pc |-> "get", d |-> driver, outcome |-> "none"]
                     ELSE [fn |-> fn, pc |-> "done", d |-> driver, outcome |-> "returned"]]
    ELSE \E b \in FreshIds :
           /\ \A other \in FreshIds : b <= other
           /\ tasks' = [tasks EXCEPT ![c] =
                          [fn |-> fn, pc |-> "build", d |-> b, outcome |-> "none"]]

\* what the driver module leaves alone
pageSide == <<nodes, roots, element, options, selectors, str, elements, previous,
              frame, log, op, result>>

\* a call of initializeDriver (6-23), up to its await
InitializeDriver ==
    \E c \in Callers :
      /\ Outside(c)
      /\ enterInitialize(c, "initializeDriver", "return")
      /\ UNCHANGED <<driver, browsers>>
      /\ UNCHANGED pageSide

\* a call of getDriver (25-30), up to the await inside initializeDriver
GetDriver ==
    \E c \in Callers :
      /\ Outside(c)
      /\ enterInitialize(c, "getDriver", "return")
      /\ UNCHANGED <<driver, browsers>>
      /\ UNCHANGED pageSide

\* a call of navigateTo (39-42), up to its first await that waits
NavigateTo ==
    \E c \in Callers :
      /\ Outside(c)
      /\ enterInitialize(c, "navigateTo", "get")
      /\ UNCHANGED <<driver, browsers>>
      /\ UNCHANGED pageSide

\* build() resolves: line 17 assigns the module's variable, 22 returns it
BuildDone ==
    \E c \in Callers :
      /\ tasks[c].pc = "build"
      /\ browsers' = browsers \cup {tasks[c].d}
      /\ driver' = tasks[c].d
      /\ tasks' = [tasks EXCEPT ![c] =
                     IF tasks[c].fn = "navigateTo"
                     THEN [@ EXCEPT !.pc = "get"]
                     ELSE [@ EXCEPT !.pc = "done", !.outcome = "returned"]]
      /\ UNCHANGED pageSide

\* d.get(url) ends (41): it fails when the browser is gone
GetDone ==
    \E c \in Callers :
      /\ tasks[c].pc = "get"
      /\ tasks' = [tasks EXCEPT ![c] =
                     [@ EXCEPT !.pc = "done",
                               !.outcome = IF tasks[c].d \in browsers THEN "returned"
                                           ELSE "thrown"]]
      /\ UNCHANGED <<driver, browsers>>
      /\ UNCHANGED pageSide

\* a call of quitDriver (32-37), up to the await of driver.quit()
QuitDriver ==
    \E c \in Callers :
      /\ Outside(c)
      /\ tasks' = [tasks EXCEPT ![c] =
                     IF driver # 0
                     THEN [fn |-> "quitDriver", pc |-> "quit", d |-> driver, outcome |-> "none"]
                     ELSE [fn |-> "quitDriver", pc |-> "done", d |-> 0, outcome |-> "returned"]]
      /\ UNCHANGED <<driver, browsers>>
      /\ UNCHANGED pageSide

\* driver.quit() resolves: the browser is gone and line 35 clears the
\* module's variable
QuitDone ==
    \E c \in Callers :
      /\ tasks[c].pc = "quit"
      /\ browsers' = browsers \ {tasks[c].d}
      /\ driver' = 0
      /\ tasks' = [tasks EXCEPT ![c] = [@ EXCEPT !.pc = "done", !.outcome = "returned"]]
      /\ UNCHANGED pageSide

\* driver.quit() on a browser another call has quit meanwhile is rejected:
\* line 35 is not reached
QuitRejected ==
    \E c \in Callers :
      /\ tasks[c].pc = "quit"
      /\ tasks[c].d \notin browsers
      /\ tasks' = [tasks EXCEPT ![c] = [@ EXCEPT !.pc = "done", !.outcome = "thrown"]]
      /\ UNCHANGED <<driver, browsers>>
      /\ UNCHANGED pageSide

NextDriver ==
    \/ InitializeDriver
    \/ GetDriver
    \/ NavigateTo
    \/ BuildDone
    \/ GetDone
    \/ QuitDriver
    \/ QuitDone
    \/ QuitRejected

SpecDriver == InitDriver /\ [][NextDriver]_vars

\* C29: the driver module holds at most one WebDriver: the browsers alive
\* or being built are never more than one, a caller that was handed a
\* driver that is still alive was handed the module's driver, and when no
\* call is inside the module and the module's variable is null, no browser
\* is running.
C29_AtMostOneBrowser ==
    (tasks # <<>>) =>
      /\ Cardinality(browsers \cup Building) <= 1
      /\ \A c \in Callers :
           (tasks[c].pc = "done" /\ tasks[c].fn \in {"initializeDriver", "getDriver"}
              /\ tasks[c].d \in browsers) => tasks[c].d = driver
      /\ ((\A c \in Callers : Outside(c)) /\ driver = 0) => browsers = {}

====
